---------------------------- MODULE Spec2Model ----------------------------
(***************************************************************************)
(* Hybrid document retrieval and ranking engine of Locket.AI               *)
(* (backend/search_service.py, backend/chat_service.py).                   *)
(*                                                                         *)
(* Text is a sequence of one-character strings.  A score is an integer in  *)
(* millionths (Unit = 1.0); a value rounded to four decimals is an integer *)
(* in ten-thousandths (Unit4 = 1.0).                                       *)
(***************************************************************************)
EXTENDS Integers, Sequences, FiniteSets, TLC

VARIABLES
    op,               \* the operation that has just returned ("init": none yet)
    args,             \* the arguments of the call (and what the provider did in it)
    ret,              \* what the call returned (or the exception it raised)
    embedding_model,  \* search_service._embedding_model: "unset" (None) or "loaded"
    model_loads,      \* how many times SentenceTransformer(...) was constructed
    encode_calls,     \* how many times model.encode(...) was called
    documents,        \* the documents table, in id order
    members,          \* the user_group_members table: <<user_id, group_id>>
    pc,               \* where each worker thread of the server is in its request
    now,              \* the clock, in days
    summaries,        \* documents.summary and .summary_generated_at, by document id
    chat              \* the chat: its title, its messages and their citations

vars == <<op, args, ret, embedding_model, model_loads, encode_calls, documents, members,
          pc, now, summaries, chat>>

(***************************************************************************)
(* Bounds of the model.                                                    *)
(***************************************************************************)
MaxLen == 3        \* longest text drawn letter by letter
MaxDocs == 2       \* longest document list handed to the ranking functions
MaxPad == 2        \* how far past a window edge the snippet's paddings go

(***************************************************************************)
(* Numbers.                                                                *)
(***************************************************************************)
Unit == 1000 * 1000
Unit4 == 100 * 100

\* Python's None where a text is expected: a sequence that is no text (no
\* character is "None").  It also stands for "no result yet" in ret.
None == <<"None">>

\* What a call that may raise hands back: a value, or the exception it raised.
Ok(v) == [ok |-> TRUE, val |-> v]
Raise(e) == [ok |-> FALSE, exc |-> e]

Min(a, b) == IF a < b THEN a ELSE b
Max(a, b) == IF a > b THEN a ELSE b
Abs(a) == IF a < 0 THEN -a ELSE a

\* The integer nearest to x / k, halves to even: round(v, 4) of a value v that
\* is x in units of 1 / (k * Unit4).
RoundDiv(x, k) ==
    LET a == Abs(x)
        q == a \div k
        r == a % k
        m == IF 2 * r > k \/ (2 * r = k /\ q % 2 = 1) THEN q + 1 ELSE q
    IN  IF x < 0 THEN -m ELSE m

RECURSIVE IsqrtIn(_, _, _)
IsqrtIn(n, lo, hi) ==
    IF lo >= hi THEN lo
    ELSE LET mid == (lo + hi + 1) \div 2
         IN  IF mid * mid <= n THEN IsqrtIn(n, mid, hi) ELSE IsqrtIn(n, lo, mid - 1)

\* floor of the square root of n, 0 <= n < 2^31
Isqrt(n) == IsqrtIn(n, 0, Min(n, 46340))

(***************************************************************************)
(* Text: str.lower, in, find, split, slices.                               *)
(***************************************************************************)
UpperCase == <<"A", "B", "C", "D", "E", "F", "G", "H", "I", "J", "K", "L", "M",
               "N", "O", "P", "Q", "R", "S", "T", "U", "V", "W", "X", "Y", "Z">>
LowerCase == <<"a", "b", "c", "d", "e", "f", "g", "h", "i", "j", "k", "l", "m",
               "n", "o", "p", "q", "r", "s", "t", "u", "v", "w", "x", "y", "z">>
Digits == {"0", "1", "2", "3", "4", "5", "6", "7", "8", "9"}
Whitespace == {" ", "\t", "\n"}

Range(s) == {s[i] : i \in DOMAIN s}

LowerChar(c) ==
    IF \E i \in DOMAIN UpperCase : UpperCase[i] = c
    THEN LowerCase[CHOOSE i \in DOMAIN UpperCase : UpperCase[i] = c]
    ELSE c

\* s.lower()
Lower(s) == [i \in 1..Len(s) |-> LowerChar(s[i])]

\* s[a:b] for 0 <= a, 0 <= b
Slice(s, a, b) == SubSeq(s, a + 1, Min(b, Len(s)))

\* s.find(sub): the lowest 0-based offset at which sub occurs in s, or -1
Find(s, sub) ==
    LET hits == {i \in 0..(Len(s) - Len(sub)) : SubSeq(s, i + 1, i + Len(sub)) = sub}
    IN  IF hits = {} THEN -1 ELSE CHOOSE i \in hits : \A j \in hits : i <= j

\* sub in s
Contains(s, sub) == Find(s, sub) # -1

\* s.strip() = "" : s is empty or only whitespace
IsBlank(s) == \A i \in DOMAIN s : s[i] \in Whitespace

\* Cut s into its maximal runs of characters for which keep[c] holds.
RECURSIVE RunsFrom(_, _, _, _)
RunsFrom(s, i, cur, keep) ==
    IF i > Len(s) THEN (IF cur = << >> THEN << >> ELSE <<cur>>)
    ELSE IF s[i] \in keep THEN RunsFrom(s, i + 1, Append(cur, s[i]), keep)
    ELSE (IF cur = << >> THEN << >> ELSE <<cur>>) \o RunsFrom(s, i + 1, << >>, keep)

\* s.split(): the whitespace-separated words of s, in order
Split(s) == RunsFrom(s, 1, << >>, Range(s) \ Whitespace)

\* " ".join(words)
RECURSIVE Join(_)
Join(words) ==
    IF words = << >> THEN << >>
    ELSE IF Len(words) = 1 THEN words[1]
    ELSE words[1] \o <<" ">> \o Join(Tail(words))

\* The text of a string literal, one character per element.
Text(str) == [i \in 1..Len(str) |-> SubSeq(str, i, i)]

EndsWith(s, suf) == Len(suf) <= Len(s) /\ SubSeq(s, Len(s) - Len(suf) + 1, Len(s)) = suf

\* s * n
Repeat(s, n) == [i \in 1..(n * Len(s)) |-> s[((i - 1) % Len(s)) + 1]]

(***************************************************************************)
(* fuzzy_match_score                                                       *)
(***************************************************************************)
\* fuzzy_match_score dividing the overlap by the number of words of the text
fuzzy_match_score_by_text_words(query, text) ==
    IF query = << >> \/ text = << >> THEN 0
    ELSE LET query_lower == Lower(query)
             text_lower == Lower(text)
             query_words == Range(Split(query_lower))
             text_words == Range(Split(text_lower))
             overlap == Cardinality(query_words \cap text_words)
         IN  IF Contains(text_lower, query_lower) THEN Unit
             ELSE IF query_words = {} \/ text_words = {} THEN 0
             ELSE (overlap * Unit) \div Cardinality(text_words)

fuzzy_match_score(query, text) ==
    IF query = << >> \/ text = << >> THEN 0
    ELSE LET query_lower == Lower(query)
             text_lower == Lower(text)
             query_words == Range(Split(query_lower))
             text_words == Range(Split(text_lower))
             overlap == Cardinality(query_words \cap text_words)
         IN  IF Contains(text_lower, query_lower) THEN Unit
             ELSE IF query_words = {} THEN 0
             ELSE (overlap * Unit) \div Cardinality(query_words)

(***************************************************************************)
(* cosine_similarity_score.  A vector (a list of floats) is a record: dim  *)
(* is its length and head its components up to the last non-zero one, the  *)
(* components after head being 0.  Components are integers, and the        *)
(* vectors drawn below have integral norms, so np.linalg.norm is exact.    *)
(***************************************************************************)
Vec(dim, head) == [dim |-> dim, head |-> head]

\* None where a vector is expected (a document that was never indexed)
NoVector == Vec(-1, << >>)
EmptyList == Vec(0, << >>)

RECURSIVE SumOver(_, _)
SumOver(S, f) ==
    IF S = {} THEN 0
    ELSE LET i == CHOOSE j \in S : TRUE IN f[i] + SumOver(S \ {i}, f)

\* np.dot(v1, v2) for vectors of the same length
Dot(v1, v2) ==
    LET S == DOMAIN v1.head \cap DOMAIN v2.head
    IN  SumOver(S, [i \in S |-> v1.head[i] * v2.head[i]])

\* np.linalg.norm(v)
Norm(v) == Isqrt(Dot(v, v))

\* a / b truncated to millionths, for b > 0
Ratio(a, b) == IF a < 0 THEN -((-a * Unit) \div b) ELSE (a * Unit) \div b

\* cosine_similarity_score taking the dot product before it looks at the norms
cosine_similarity_score_dot_first(vec1, vec2) ==
    IF vec1 = NoVector \/ vec2 = NoVector THEN Ok(0)
    ELSE IF vec1 = EmptyList \/ vec2 = EmptyList THEN Ok(0)
    ELSE IF vec1.dim # vec2.dim THEN Raise("ValueError")
    ELSE LET norm1 == Norm(vec1)
             norm2 == Norm(vec2)
         IN  IF norm1 = 0 \/ norm2 = 0 THEN Ok(0)
             ELSE Ok(Ratio(Dot(vec1, vec2), norm1 * norm2))

cosine_similarity_score(vec1, vec2) ==
    IF vec1 = NoVector \/ vec2 = NoVector THEN Ok(0)
    ELSE IF vec1 = EmptyList \/ vec2 = EmptyList THEN Ok(0)
    ELSE LET norm1 == Norm(vec1)
             norm2 == Norm(vec2)
         IN  IF norm1 = 0 \/ norm2 = 0 THEN Ok(0)
             ELSE IF vec1.dim # vec2.dim THEN Raise("ValueError")   \* np.dot
             ELSE Ok(Ratio(Dot(vec1, vec2), norm1 * norm2))

(***************************************************************************)
(* keyword_match_score: TfidfVectorizer(lowercase=True,                    *)
(* stop_words='english') fitted on the two texts, then the cosine of the   *)
(* two rows.  Tokens are the runs of two or more word characters.          *)
(***************************************************************************)
WordChars == Range(UpperCase) \cup Range(LowerCase) \cup Digits \cup {"_"}

\* the words of sklearn's English stop list that the texts below can hold
EnglishStopWords ==
    {Text("the"), Text("an"), Text("and"), Text("or"), Text("but"), Text("is"),
     Text("are"), Text("was"), Text("were"), Text("of"), Text("to"), Text("in"),
     Text("for"), Text("on"), Text("what"), Text("when"), Text("where"),
     Text("who"), Text("how"), Text("why"), Text("our"), Text("all")}

Tokens(s) ==
    SelectSeq(RunsFrom(Lower(s), 1, << >>, WordChars),
              LAMBDA w : Len(w) >= 2 /\ w \notin EnglishStopWords)

\* how often the token w occurs in the token list ts
Count(ts, w) == Cardinality({i \in DOMAIN ts : ts[i] = w})

\* (ln(3/2) + 1)^2 in thousandths: the squared smooth idf of a term that only
\* one of the two texts holds (a term of both has idf 1)
IdfSqMilli == 1975

keyword_match_score(query, text) ==
    IF query = << >> \/ text = << >> THEN 0
    ELSE LET tq == Tokens(query)
             td == Tokens(text)
             shared == Range(tq) \cap Range(td)
             w(t) == IF t \in shared THEN 1000 ELSE IdfSqMilli
             S == SumOver(shared, [t \in shared |-> Count(tq, t) * Count(td, t)])
             A == SumOver(Range(tq), [t \in Range(tq) |-> Count(tq, t) * Count(tq, t) * w(t)])
             B == SumOver(Range(td), [t \in Range(td) |-> Count(td, t) * Count(td, t) * w(t)])
         IN  IF tq = << >> /\ td = << >> THEN 0     \* empty vocabulary: ValueError, caught
             ELSE IF S = 0 THEN 0
             ELSE ((S * 1000 * Unit4) \div Isqrt(A * B)) * (Unit \div Unit4)

(***************************************************************************)
(* filename_match_score                                                    *)
(***************************************************************************)
Extensions ==
    {Text("pdf"), Text("doc"), Text("docx"), Text("txt"),
     Text("xls"), Text("xlsx"), Text("ppt"), Text("pptx")}

\* re.sub(r'\.(pdf|docx?|txt|xlsx?|pptx?)$', '', s)
StripExtension(s) ==
    LET hit == {e \in Extensions : EndsWith(s, <<".">> \o e)}
    IN  IF hit = {} THEN s
        ELSE LET e == CHOOSE x \in hit : TRUE IN SubSeq(s, 1, Len(s) - Len(e) - 1)

\* the length of the longest prefix of s, from offset i on, made of characters of set
RECURSIVE RunLen(_, _, _)
RunLen(s, i, set) ==
    IF i <= Len(s) /\ s[i] \in set THEN 1 + RunLen(s, i + 1, set) ELSE 0

\* re.sub(r'^\d+[_\-\s]*', '', s)
StripLeadingNumber(s) ==
    LET d == RunLen(s, 1, Digits)
        k == RunLen(s, d + 1, {"_", "-"} \cup Whitespace)
    IN  IF d = 0 THEN s ELSE SubSeq(s, d + k + 1, Len(s))

\* re.sub(r'[_\-]', ' ', s)
SeparatorsToSpaces(s) == [i \in 1..Len(s) |-> IF s[i] \in {"_", "-"} THEN " " ELSE s[i]]

CleanFilename(filename) ==
    SeparatorsToSpaces(StripLeadingNumber(StripExtension(Lower(filename))))

stop_words ==
    {Text("the"), Text("a"), Text("an"), Text("and"), Text("or"), Text("but"),
     Text("is"), Text("are"), Text("was"), Text("were"), Text("of"), Text("to"),
     Text("in"), Text("for"), Text("on"), Text("what"), Text("when"),
     Text("where"), Text("who"), Text("how"), Text("why")}

MeaningfulWords(s) == {w \in Range(Split(s)) : w \notin stop_words /\ Len(w) > 2}

SubstringScore == 900 * 1000     \* 0.9
BoostTenths == 13                \* 1.3

\* filename_match_score without the clamp of the boosted overlap ratio
filename_match_score_unclamped(query, filename) ==
    IF query = << >> \/ filename = << >> THEN 0
    ELSE LET query_lower == Lower(query)
             filename_clean == CleanFilename(filename)
             query_words == MeaningfulWords(query_lower)
             filename_words == MeaningfulWords(filename_clean)
             overlap == Cardinality(query_words \cap filename_words)
         IN  IF query_lower = filename_clean THEN Unit
             ELSE IF Contains(filename_clean, query_lower)
                     \/ Contains(query_lower, filename_clean) THEN SubstringScore
             ELSE IF query_words = {} THEN 0
             ELSE (overlap * BoostTenths * Unit) \div (10 * Cardinality(query_words))

filename_match_score(query, filename) ==
    IF query = << >> \/ filename = << >> THEN 0
    ELSE LET query_lower == Lower(query)
             filename_clean == CleanFilename(filename)
             query_words == MeaningfulWords(query_lower)
             filename_words == MeaningfulWords(filename_clean)
             overlap == Cardinality(query_words \cap filename_words)
         IN  IF query_lower = filename_clean THEN Unit
             ELSE IF Contains(filename_clean, query_lower)
                     \/ Contains(query_lower, filename_clean) THEN SubstringScore
             ELSE IF query_words = {} THEN 0
             ELSE IF overlap > 0
                  THEN Min(Unit, (overlap * BoostTenths * Unit)
                                     \div (10 * Cardinality(query_words)))
             ELSE 0

(***************************************************************************)
(* calculate_hybrid_score: the weights are hundredths; the breakdown holds *)
(* each score rounded to four decimals.                                    *)
(***************************************************************************)
SemanticWeight == 40
FilenameWeight == 30
KeywordWeight == 20
FuzzyWeight == 10

OrEmpty(content) == IF content = None THEN << >> ELSE content

\* calculate_hybrid_score with the earlier weighting 0.50 / 0.25 / 0.15 / 0.10
\* (semantic / keyword / filename / fuzzy)
calculate_hybrid_score_old_weights(query_embedding, doc_embedding, query, doc_content, doc_filename) ==
    LET semantic == cosine_similarity_score(query_embedding, doc_embedding)
        semantic_score == semantic.val
        keyword_score == keyword_match_score(query, OrEmpty(doc_content))
        fuzzy_score == fuzzy_match_score(query, OrEmpty(doc_content))
        filename_score == filename_match_score(query, doc_filename)
        total_score == semantic_score * 50 + filename_score * 15
                         + keyword_score * 25 + fuzzy_score * 10
    IN  IF ~semantic.ok THEN semantic
        ELSE Ok([semantic |-> RoundDiv(semantic_score, Unit \div Unit4),
                 keyword  |-> RoundDiv(keyword_score, Unit \div Unit4),
                 fuzzy    |-> RoundDiv(fuzzy_score, Unit \div Unit4),
                 filename |-> RoundDiv(filename_score, Unit \div Unit4),
                 total    |-> RoundDiv(total_score, 100 * (Unit \div Unit4))])

calculate_hybrid_score(query_embedding, doc_embedding, query, doc_content, doc_filename) ==
    LET semantic == cosine_similarity_score(query_embedding, doc_embedding)
        semantic_score == semantic.val
        keyword_score == keyword_match_score(query, OrEmpty(doc_content))
        fuzzy_score == fuzzy_match_score(query, OrEmpty(doc_content))
        filename_score == filename_match_score(query, doc_filename)
        \* in units of 1 / (100 * Unit)
        total_score == semantic_score * SemanticWeight + filename_score * FilenameWeight
                         + keyword_score * KeywordWeight + fuzzy_score * FuzzyWeight
    IN  IF ~semantic.ok THEN semantic
        ELSE Ok([semantic |-> RoundDiv(semantic_score, Unit \div Unit4),
                 keyword  |-> RoundDiv(keyword_score, Unit \div Unit4),
                 fuzzy    |-> RoundDiv(fuzzy_score, Unit \div Unit4),
                 filename |-> RoundDiv(filename_score, Unit \div Unit4),
                 total    |-> RoundDiv(total_score, 100 * (Unit \div Unit4))])

(***************************************************************************)
(* extract_relevant_snippet                                                *)
(***************************************************************************)
ContextBefore == 50
ContextAfter == 150
Ellipsis == Text("...")

extract_relevant_snippet(query, content, max_length) ==
    IF content = None \/ content = << >> THEN << >>
    ELSE LET idx == Find(Lower(content), Lower(query))
             start == Max(0, idx - ContextBefore)
             end == Min(Len(content), idx + Len(query) + ContextAfter)
         IN  IF idx # -1
             THEN (IF start > 0 THEN Ellipsis ELSE << >>)
                    \o Slice(content, start, end)
                    \o (IF end < Len(content) THEN Ellipsis ELSE << >>)
             ELSE Slice(content, 0, max_length)
                    \o (IF Len(content) > max_length THEN Ellipsis ELSE << >>)

(***************************************************************************)
(* The embedding provider's dimension and its zero vector.                 *)
(***************************************************************************)
EmbeddingDim == 384
ZeroVector == Vec(EmbeddingDim, << >>)       \* [0.0] * 384

\* the embedding whose first components are v and whose other components are 0
Pad(v) == Vec(EmbeddingDim, v)

(***************************************************************************)
(* The scorers as pure functions: the initial state draws one call, the    *)
(* action of that function applies it.                                     *)
(***************************************************************************)
LetterAlphabet == {"a", "b", "A", " "}

RECURSIVE StringsUpTo(_)
StringsUpTo(n) ==
    IF n = 0 THEN {<< >>}
    ELSE LET S == StringsUpTo(n - 1)
         IN  S \cup {Append(s, c) : s \in {t \in S : Len(t) = n - 1}, c \in LetterAlphabet}

Letters == StringsUpTo(MaxLen)

Heads ==
    {<<1>>, <<-1>>, <<0, 1>>, <<3, 4>>, <<4, 3>>, <<-3, 4>>, <<-4, -3>>,
     <<1, 2, 2>>, <<2, 1, 2>>, <<-2, -1, 2>>, <<2, 3, 6>>}

CosineVectors ==
    {NoVector, EmptyList, ZeroVector, Vec(2, << >>), Vec(3, << >>)}
        \cup {Vec(d, h) : d \in {3, 4, EmbeddingDim}, h \in Heads}

Queries ==
    {Text(""), Text(" "), Text("refund policy"), Text("Refund"),
     Text("refund window policy"), Text("what is the refund policy"),
     Text("policy refund"), Text("xyzzy nonsense"), Text("the")}

Contents ==
    {None, Text(""), Text("Our refund policy applies to all orders."),
     Text("The refund window is 30 days. Refund requests need a receipt."),
     Text("Shipping rates and policy"), Text("refund window policy")}

Filenames ==
    {Text(""), Text("5008_refund_policy.pdf"), Text("Refund-Window-Policy.DOCX"),
     Text("shipping_rates.xlsx"), Text("refund policy"), Text("2024 - policy.txt"),
     Text("refund.pdf.bak"), Text("12_.ppt"), Text("_the_refund.doc")}

Encodings == {Pad(h) : h \in {<<3, 4>>, <<4, 3>>, <<-4, -3>>, <<1, 2, 2>>, <<2, 1, 2>>}}
Embeddings == {NoVector, EmptyList, ZeroVector} \cup Encodings

FuzzyArgs == [fn : {"fuzzy_match_score"}, query : Letters, text : Letters]
KeywordArgs == [fn : {"keyword_match_score"}, query : Queries, text : Contents \ {None}]
CosineArgs == [fn : {"cosine_similarity_score"}, vec1 : CosineVectors, vec2 : CosineVectors]
FilenameArgs == [fn : {"filename_match_score"}, query : Queries \cup Filenames, filename : Filenames]
\* the query's embedding is the zero vector exactly when the query is blank
HybridArgs ==
    {a \in [fn : {"calculate_hybrid_score"}, query_embedding : Encodings \cup {ZeroVector},
            doc_embedding : Embeddings, query : Queries, doc_content : Contents,
            doc_filename : Filenames \ {Text("")}] :
        IsBlank(a.query) <=> a.query_embedding = ZeroVector}

SnippetPaddings ==
    {<<n, m>> : n \in {0} \cup ((ContextBefore - MaxPad)..(ContextBefore + MaxPad)),
                m \in {0} \cup ((ContextAfter - MaxPad)..(ContextAfter + MaxPad))}
SnippetContents ==
    {None} \cup
    {Repeat(<<"x">>, p[1]) \o mid \o Repeat(<<"y">>, p[2]) :
        p \in SnippetPaddings, mid \in {Text(""), Text("Refund Policy")}}
SnippetArgs ==
    [fn : {"extract_relevant_snippet"}, query : {Text(""), Text("refund"), Text("policy terms")},
     content : SnippetContents, max_length : {0, 5, 200}]

NoModel == embedding_model = "unset" /\ model_loads = 0 /\ encode_calls = 0
NoData == documents = << >> /\ members = {}
NoThreads == pc = << >>
NoSummaries == now = 0 /\ summaries = << >>
NoChat == chat = [title |-> None, messages |-> << >>, citations |-> << >>]

InitScore ==
    /\ op = "init"
    /\ ret = None
    /\ NoModel
    /\ NoData
    /\ NoThreads
    /\ NoSummaries
    /\ NoChat
    /\ \/ args \in FuzzyArgs
       \/ args \in KeywordArgs
       \/ args \in CosineArgs
       \/ args \in FilenameArgs
       \/ args \in HybridArgs
       \/ args \in SnippetArgs

Returns(fn, value) ==
    /\ op = "init"
    /\ args.fn = fn
    /\ op' = fn
    /\ ret' = value
    /\ UNCHANGED <<args, embedding_model, model_loads, encode_calls, documents, members,
                   pc, now, summaries, chat>>

FuzzyMatchScore == Returns("fuzzy_match_score", fuzzy_match_score(args.query, args.text))
KeywordMatchScore == Returns("keyword_match_score", keyword_match_score(args.query, args.text))
CosineSimilarityScore ==
    Returns("cosine_similarity_score", cosine_similarity_score(args.vec1, args.vec2))
FilenameMatchScore ==
    Returns("filename_match_score", filename_match_score(args.query, args.filename))
CalculateHybridScore ==
    Returns("calculate_hybrid_score",
            calculate_hybrid_score(args.query_embedding, args.doc_embedding, args.query,
                                   args.doc_content, args.doc_filename))
ExtractRelevantSnippet ==
    Returns("extract_relevant_snippet",
            extract_relevant_snippet(args.query, args.content, args.max_length))

NextScore ==
    \/ FuzzyMatchScore
    \/ KeywordMatchScore
    \/ CosineSimilarityScore
    \/ FilenameMatchScore
    \/ CalculateHybridScore
    \/ ExtractRelevantSnippet

SpecScore == InitScore /\ [][NextScore]_vars

(***************************************************************************)
(* The embedding provider: get_embedding_model and generate_embedding.     *)
(* The state of the provider is a record m = [model, loads, encodes];      *)
(* load_ok tells whether SentenceTransformer(...) succeeds when it is      *)
(* called, and encoding is what model.encode returns.                      *)
(***************************************************************************)
Provider == [model |-> embedding_model, loads |-> model_loads, encodes |-> encode_calls]

get_embedding_model(m, load_ok) ==
    IF m.model = "unset"
    THEN IF load_ok
         THEN [ok |-> TRUE, m |-> [m EXCEPT !.model = "loaded", !.loads = @ + 1]]
         ELSE [ok |-> FALSE, m |-> m]
    ELSE [ok |-> TRUE, m |-> m]

\* generate_embedding that loads the model before it looks at the text
generate_embedding_eager(text, m, load_ok, encoding) ==
    LET g == get_embedding_model(m, load_ok)
    IN  IF ~g.ok THEN [ret |-> Raise("ModelInitError"), m |-> g.m]
        ELSE IF text = None \/ IsBlank(text) THEN [ret |-> Ok(ZeroVector), m |-> g.m]
        ELSE [ret |-> Ok(encoding), m |-> [g.m EXCEPT !.encodes = @ + 1]]

generate_embedding(text, m, load_ok, encoding) ==
    IF text = None \/ IsBlank(text) THEN [ret |-> Ok(ZeroVector), m |-> m]
    ELSE LET g == get_embedding_model(m, load_ok)
         IN  IF ~g.ok THEN [ret |-> Raise("ModelInitError"), m |-> g.m]
             ELSE [ret |-> Ok(encoding), m |-> [g.m EXCEPT !.encodes = @ + 1]]

(***************************************************************************)
(* rank_search_results                                                     *)
(***************************************************************************)
DefaultSnippetLength == 200

\* an ascending sort reversed: descending by key, equal keys in reverse list order
SortDescending_ties_reversed(items, keys) ==
    LET Before(i, j) == keys[i] > keys[j] \/ (keys[i] = keys[j] /\ i > j)
        pos(i) == 1 + Cardinality({j \in DOMAIN items : Before(j, i)})
    IN  [p \in 1..Len(items) |-> items[CHOOSE i \in DOMAIN items : pos(i) = p]]

\* list.sort(key=..., reverse=True): descending by key, equal keys in list order
\* (keys[i] is the key of items[i])
SortDescending(items, keys) ==
    LET Before(i, j) == keys[i] > keys[j] \/ (keys[i] = keys[j] /\ i < j)
        pos(i) == 1 + Cardinality({j \in DOMAIN items : Before(j, i)})
    IN  [p \in 1..Len(items) |-> items[CHOOSE i \in DOMAIN items : pos(i) = p]]

\* the first exception raised while the documents are scored, if any
FirstFailure(scored) ==
    LET bad == {i \in DOMAIN scored : ~scored[i].ok}
    IN  scored[CHOOSE i \in bad : \A j \in bad : i <= j]

RelevanceScore(results) == [k \in DOMAIN results |-> results[k].relevance_score]

\* lines 305-313: the score breakdown of every document of the list
ScoreAll(query, docs, query_embedding) ==
    [i \in DOMAIN docs |->
        calculate_hybrid_score(query_embedding, docs[i].embedding, query,
                               docs[i].content, docs[i].filename)]

\* lines 319-336: the results of the documents at the offsets kept, sorted
SortedResults(query, docs, scored, kept) ==
    LET results ==
            [k \in DOMAIN kept |->
                [doc |-> docs[kept[k]],
                 relevance_score |-> scored[kept[k]].val.total,
                 score_breakdown |-> scored[kept[k]].val,
                 snippet |-> extract_relevant_snippet(query, docs[kept[k]].content,
                                                      DefaultSnippetLength)]]
    IN  SortDescending(results, RelevanceScore(results))

Offsets(docs) == [i \in DOMAIN docs |-> i]

\* rank_search_results keeping a result only when its total is above min_score
rank_search_results_strict(query, docs, min_score, m, load_ok, encoding) ==
    IF query = None \/ query = << >> \/ docs = << >> THEN [ret |-> Ok(<< >>), m |-> m]
    ELSE LET e == generate_embedding(query, m, load_ok, encoding)
             scored == ScoreAll(query, docs, e.ret.val)
             kept == SelectSeq(Offsets(docs), LAMBDA i : scored[i].val.total > min_score)
         IN  IF ~e.ret.ok THEN e
             ELSE IF \E i \in DOMAIN scored : ~scored[i].ok
                  THEN [ret |-> FirstFailure(scored), m |-> e.m]
             ELSE [ret |-> Ok(SortedResults(query, docs, scored, kept)), m |-> e.m]

\* rank_search_results embedding the query before it looks at its arguments
rank_search_results_embed_first(query, docs, min_score, m, load_ok, encoding) ==
    LET e == generate_embedding(query, m, load_ok, encoding)
        scored == ScoreAll(query, docs, e.ret.val)
        kept == SelectSeq(Offsets(docs), LAMBDA i : ~(scored[i].val.total < min_score))
    IN  IF ~e.ret.ok THEN e
        ELSE IF query = None \/ query = << >> \/ docs = << >>
             THEN [ret |-> Ok(<< >>), m |-> e.m]
        ELSE IF \E i \in DOMAIN scored : ~scored[i].ok
             THEN [ret |-> FirstFailure(scored), m |-> e.m]
        ELSE [ret |-> Ok(SortedResults(query, docs, scored, kept)), m |-> e.m]

rank_search_results(query, docs, min_score, m, load_ok, encoding) ==
    IF query = None \/ query = << >> \/ docs = << >> THEN [ret |-> Ok(<< >>), m |-> m]
    ELSE LET e == generate_embedding(query, m, load_ok, encoding)
             scored == ScoreAll(query, docs, e.ret.val)
             kept == SelectSeq(Offsets(docs), LAMBDA i : ~(scored[i].val.total < min_score))
         IN  IF ~e.ret.ok THEN e
             ELSE IF \E i \in DOMAIN scored : ~scored[i].ok
                  THEN [ret |-> FirstFailure(scored), m |-> e.m]
             ELSE [ret |-> Ok(SortedResults(query, docs, scored, kept)), m |-> e.m]

(***************************************************************************)
(* chat_service.extract_relevant_excerpt                                   *)
(***************************************************************************)
SentenceEnds == {".", "!", "?"}

\* s.strip()
Strip(s) ==
    LET keep == {i \in DOMAIN s : s[i] \notin Whitespace}
    IN  IF keep = {} THEN << >>
        ELSE SubSeq(s, CHOOSE i \in keep : \A j \in keep : i <= j,
                       CHOOSE i \in keep : \A j \in keep : i >= j)

\* re.split(r'[.!?]+', content), stripped, the pieces of more than 20 characters
Sentences(content) ==
    LET pieces == RunsFrom(content, 1, << >>, Range(content) \ SentenceEnds)
    IN  SelectSeq([i \in DOMAIN pieces |-> Strip(pieces[i])], LAMBDA p : Len(p) > 20)

\* re.findall(r'\w+', query_lower), the words of more than 3 characters
LongQueryWords(query) ==
    {w \in Range(RunsFrom(Lower(query), 1, << >>, WordChars)) : Len(w) > 3}

Matches(query, sentence) ==
    Cardinality({w \in LongQueryWords(query) : Contains(Lower(sentence), w)})

\* ". ".join(parts)
RECURSIVE JoinSentences(_)
JoinSentences(parts) ==
    IF parts = << >> THEN << >>
    ELSE IF Len(parts) = 1 THEN parts[1]
    ELSE parts[1] \o Text(". ") \o JoinSentences(Tail(parts))

\* the sentences taken, in order, until one does not fit into max_length
RECURSIVE TakeWhileFits(_, _, _)
TakeWhileFits(sentences, current_length, max_length) ==
    IF sentences = << >> THEN << >>
    ELSE IF current_length + Len(sentences[1]) > max_length THEN << >>
    ELSE <<sentences[1]>>
            \o TakeWhileFits(Tail(sentences), current_length + Len(sentences[1]), max_length)

extract_relevant_excerpt(query, content, max_length) ==
    IF content = None \/ content = << >> THEN << >>
    ELSE LET stripped == Strip(content)
             sentences == Sentences(stripped)
             matches == [i \in DOMAIN sentences |-> Matches(query, sentences[i])]
             top == SubSeq(SortDescending(sentences, matches), 1, Min(3, Len(sentences)))
             excerpt_parts == TakeWhileFits(top, 0, max_length)
             excerpt == JoinSentences(excerpt_parts)
         IN  IF sentences = << >>
             THEN (IF Len(stripped) > max_length
                   THEN Slice(stripped, 0, max_length) \o Ellipsis ELSE stripped)
             ELSE IF excerpt_parts = << >> THEN sentences[1]
             ELSE IF Len(excerpt) < Len(stripped) THEN excerpt \o Ellipsis
             ELSE excerpt

(***************************************************************************)
(* chat_service.get_relevant_documents                                     *)
(***************************************************************************)
ExcerptLength == 300

\* [msg['content'] for msg in conversation_history[-4:] if msg['role'] == 'user'][-2:]
LastItems(s, n) == SubSeq(s, Max(1, Len(s) - n + 1), Len(s))
RecentUserMessages(history) ==
    LET recent == SelectSeq(LastItems(history, 4), LAMBDA msg : msg.role = "user")
    IN  LastItems([i \in DOMAIN recent |-> recent[i].content], 2)

\* the enhanced query built from the last two user messages of the whole history
EnhancedQuery_whole_history(query, history) ==
    LET users == SelectSeq(history, LAMBDA msg : msg.role = "user")
        recent == LastItems([i \in DOMAIN users |-> users[i].content], 2)
    IN  IF recent = << >> THEN query ELSE Join(recent) \o <<" ">> \o query

EnhancedQuery(query, history) ==
    IF history = << >> \/ RecentUserMessages(history) = << >> THEN query
    ELSE Join(RecentUserMessages(history)) \o <<" ">> \o query

\* the three queries without the test of the user's groups: the group
\* documents of every group
AccessibleDocs_every_group(table, memberships, user_id) ==
    SelectSeq(table, LAMBDA d : d.uploaded_by_id = user_id /\ d.visibility = "private")
        \o SelectSeq(table, LAMBDA d : d.visibility = "public")
        \o SelectSeq(table, LAMBDA d : d.visibility = "group")

\* the documents the three queries of lines 55-79 return, in that order
AccessibleDocs(table, memberships, user_id) ==
    LET private_docs == SelectSeq(table, LAMBDA d : d.uploaded_by_id = user_id
                                                      /\ d.visibility = "private")
        public_docs == SelectSeq(table, LAMBDA d : d.visibility = "public")
        group_ids == {mb[2] : mb \in {x \in memberships : x[1] = user_id}}
        group_docs == SelectSeq(table, LAMBDA d : d.visibility = "group"
                                                    /\ d.user_group_id \in group_ids)
    IN  private_docs \o public_docs \o (IF group_ids = {} THEN << >> ELSE group_docs)

\* line 84: the accessible documents that have both content and embedding
Scorable(docs) ==
    SelectSeq(docs, LAMBDA d : ~(d.content = None \/ d.content = << >>)
                                 /\ ~(d.embedding = NoVector \/ d.embedding = EmptyList))

Second(tuples) == [i \in DOMAIN tuples |-> tuples[i][2]]

ScoredDocuments(query, docs, query_embedding) ==
    [i \in DOMAIN docs |->
        <<docs[i],
          calculate_hybrid_score(query_embedding, docs[i].embedding, query,
                                 docs[i].content, docs[i].filename).val.total,
          extract_relevant_excerpt(query, docs[i].content, ExcerptLength)>>]

\* get_relevant_documents cutting the list to limit before it sorts it
get_relevant_documents_cut_first(table, memberships, user_id, query, history, limit, m, load_ok, encoding) ==
    LET enhanced_query == EnhancedQuery(query, history)
        e == generate_embedding(enhanced_query, m, load_ok, encoding)
        docs == Scorable(AccessibleDocs(table, memberships, user_id))
        scored == ScoreAll(query, docs, e.ret.val)
        scored_documents == ScoredDocuments(query, docs, e.ret.val)
    IN  IF ~e.ret.ok THEN [ret |-> e.ret, m |-> e.m, embedded |-> enhanced_query]
        ELSE IF \E i \in DOMAIN scored : ~scored[i].ok
             THEN [ret |-> FirstFailure(scored), m |-> e.m, embedded |-> enhanced_query]
        ELSE [ret |-> Ok(SortDescending(Slice(scored_documents, 0, limit),
                                        Second(Slice(scored_documents, 0, limit)))),
              m |-> e.m, embedded |-> enhanced_query]

get_relevant_documents(table, memberships, user_id, query, history, limit, m, load_ok, encoding) ==
    LET enhanced_query == EnhancedQuery(query, history)
        e == generate_embedding(enhanced_query, m, load_ok, encoding)
        docs == Scorable(AccessibleDocs(table, memberships, user_id))
        scored == ScoreAll(query, docs, e.ret.val)
        scored_documents == ScoredDocuments(query, docs, e.ret.val)
    IN  IF ~e.ret.ok THEN [ret |-> e.ret, m |-> e.m, embedded |-> enhanced_query]
        ELSE IF \E i \in DOMAIN scored : ~scored[i].ok
             THEN [ret |-> FirstFailure(scored), m |-> e.m, embedded |-> enhanced_query]
        ELSE [ret |-> Ok(Slice(SortDescending(scored_documents, Second(scored_documents)),
                               0, limit)),
              m |-> e.m, embedded |-> enhanced_query]

(***************************************************************************)
(* reindex_document and main.upload_document                               *)
(***************************************************************************)
\* documents.user_group_id of a document that belongs to no group (NULL)
NoGroup == 0

PreviewLength == 500

reindex_document(document_id, content, filename, m, load_ok, encoding) ==
    LET combined_text == filename \o Text("\n\n") \o OrEmpty(content)
        e == generate_embedding(combined_text, m, load_ok, encoding)
        preview == IF content = None \/ content = << >> THEN << >>
                   ELSE Slice(content, 0, PreviewLength)
    IN  IF ~e.ret.ok THEN e
        ELSE [ret |-> Ok([embedding |-> e.ret.val, content_preview |-> preview]), m |-> e.m]

UploadedMessage == "Document uploaded and indexed successfully"

\* main.upload_document from the text extraction on (lines 884-939): the row
\* it adds to the documents table and the response it returns
upload_document(table, file, user_id, visibility, m, load_ok, encoding) ==
    LET index_data == reindex_document(0, OrEmpty(file.content), file.filename,
                                       m, load_ok, encoding)
        embedding == IF index_data.ret.ok THEN index_data.ret.val.embedding ELSE NoVector
        document == [id |-> Len(table) + 1, filename |-> file.filename,
                     content |-> file.content, embedding |-> embedding,
                     visibility |-> visibility, uploaded_by_id |-> user_id,
                     user_group_id |-> NoGroup]
    IN  [ret |-> Ok([id |-> document.id, filename |-> document.filename,
                     message |-> UploadedMessage]),
         m |-> index_data.m,
         documents |-> Append(table, document)]

(***************************************************************************)
(* generate_document_summary: cleaning the content and cutting it into     *)
(* sentences (lines 383-390).                                              *)
(***************************************************************************)
Letter == Range(UpperCase) \cup Range(LowerCase)

Indices(s) == [i \in 1..Len(s) |-> i]

\* the characters of s at the offsets of keep, in order
Pick(s, keep) == [k \in 1..Len(keep) |-> s[keep[k]]]

\* re.sub(r'\s+', ' ', content)
NormalizeWhitespace(s) ==
    LET keep == SelectSeq(Indices(s),
                          LAMBDA i : s[i] \notin Whitespace \/ i = 1
                                        \/ s[i - 1] \notin Whitespace)
    IN  [k \in 1..Len(keep) |-> IF s[keep[k]] \in Whitespace THEN " " ELSE s[keep[k]]]

\* the offset of the last character of the run of characters of class that
\* starts at i (i - 1 when s[i] is not of the class)
RunEnd(s, i, class) ==
    LET stops == {j \in i..Len(s) : s[j] \notin class}
    IN  IF i > Len(s) THEN i - 1
        ELSE IF stops = {} THEN Len(s) ELSE (CHOOSE j \in stops : \A k \in stops : j <= k) - 1

HasAt(s, i, word) == i >= 1 /\ i + Len(word) - 1 <= Len(s) /\ SubSeq(s, i, i + Len(word) - 1) = word

\* \b at the gap before offset i
Boundary(s, i) ==
    LET before == i > 1 /\ i - 1 <= Len(s) /\ s[i - 1] \in WordChars
        after == i >= 1 /\ i <= Len(s) /\ s[i] \in WordChars
    IN  before # after

\* the end of the match of \b(page|Page|PAGE)\s+\d+\b that starts at i, or 0
PageNumberEnd(s, i) ==
    LET spaces == RunEnd(s, i + 4, Whitespace)
        digits == RunEnd(s, spaces + 1, Digits)
    IN  IF /\ Boundary(s, i)
           /\ \E w \in {Text("page"), Text("Page"), Text("PAGE")} : HasAt(s, i, w)
           /\ spaces >= i + 4
           /\ digits >= spaces + 1
           /\ Boundary(s, digits + 1)
        THEN digits ELSE 0

\* the end of the match of \d+\s+of\s+\d+ that starts at i, or 0
PageOfPagesEnd(s, i) ==
    LET digits1 == RunEnd(s, i, Digits)
        spaces1 == RunEnd(s, digits1 + 1, Whitespace)
        spaces2 == RunEnd(s, spaces1 + 3, Whitespace)
        digits2 == RunEnd(s, spaces2 + 1, Digits)
    IN  IF /\ i >= 1 /\ i <= Len(s)
           /\ s[i] \in Digits
           /\ digits1 >= i
           /\ spaces1 >= digits1 + 1
           /\ HasAt(s, spaces1 + 1, Text("of"))
           /\ spaces2 >= spaces1 + 3
           /\ digits2 >= spaces2 + 1
        THEN digits2 ELSE 0

\* the matches re.sub replaces: leftmost first, none overlapping an earlier one
RECURSIVE Matched(_, _)
Matched(ends, from) ==
    LET starts == {i \in from..Len(ends) : ends[i] > 0}
        first == CHOOSE i \in starts : \A j \in starts : i <= j
    IN  IF starts = {} THEN {}
        ELSE (first..ends[first]) \cup Matched(ends, ends[first] + 1)

Without(s, removed) == Pick(s, SelectSeq(Indices(s), LAMBDA i : i \notin removed))

\* lines 386-387
RemoveArtifacts(s) ==
    LET pages == Without(s, Matched([i \in 1..Len(s) |-> PageNumberEnd(s, i)], 1))
    IN  Without(pages, Matched([i \in 1..Len(pages) |-> PageOfPagesEnd(pages, i)], 1))

SentenceEnd == {".", "!", "?"}

\* re.split(r'(?<=[.!?])\s+(?=[A-Z])', s): s cut at the whitespace that
\* follows a sentence end and precedes a capital letter
SplitSentences(s) ==
    LET cuts == SelectSeq(Indices(s),
                    LAMBDA i : /\ s[i] \in Whitespace
                               /\ i > 1 /\ s[i - 1] \in SentenceEnd
                               /\ RunEnd(s, i, Whitespace) < Len(s)
                               /\ s[RunEnd(s, i, Whitespace) + 1] \in Range(UpperCase))
        from(k) == IF k = 1 THEN 1 ELSE RunEnd(s, cuts[k - 1], Whitespace) + 1
        to(k) == IF k > Len(cuts) THEN Len(s) ELSE cuts[k] - 1
    IN  [k \in 1..(Len(cuts) + 1) |-> SubSeq(s, from(k), to(k))]

(***************************************************************************)
(* generate_document_summary: is_quality_sentence (lines 402-449) and      *)
(* get_sentence_importance_score (lines 452-469).                          *)
(***************************************************************************)
\* len(s.split())
WordCount(s) ==
    Len(SelectSeq(Indices(s), LAMBDA i : s[i] \notin Whitespace
                                          /\ (i = 1 \/ s[i - 1] \in Whitespace)))

CountIn(s, class) == Len(SelectSeq(s, LAMBDA c : c \in class))

\* the end of the words of parts, separated by \s+, when they start at i; or 0
RECURSIVE PhraseEnd(_, _, _)
PhraseEnd(s, i, parts) ==
    LET end == i + Len(parts[1]) - 1
        spaces == RunEnd(s, end + 1, Whitespace)
    IN  IF ~HasAt(s, i, parts[1]) THEN 0
        ELSE IF Len(parts) = 1 THEN end
        ELSE IF spaces < end + 1 THEN 0
        ELSE PhraseEnd(s, spaces + 1, Tail(parts))

HasPhrase(s, parts) == \E i \in 1..Len(s) : PhraseEnd(s, i, parts) > 0

StartsPhrase(s, parts) == PhraseEnd(s, 1, parts) > 0

Punctuation == {".", ",", ";", ":", "!", "?", "-", "(", ")", "[", "]", "{", "}"}

\* r'^\d+\.?\s*\d*\.?\s*[A-Z]' (ignoring case): a section number and a letter
StartsWithSectionNumber(s) ==
    LET SkipDot(i) == IF i <= Len(s) /\ s[i] = "." THEN i + 1 ELSE i
        digits1 == RunEnd(s, 1, Digits) + 1
        spaces1 == RunEnd(s, SkipDot(digits1), Whitespace) + 1
        digits2 == RunEnd(s, spaces1, Digits) + 1
        spaces2 == RunEnd(s, SkipDot(digits2), Whitespace) + 1
    IN  digits1 > 1 /\ spaces2 <= Len(s) /\ s[spaces2] \in Letter

\* r'^(figure|fig\.|table|tbl\.)\s+\d+' (ignoring case)
StartsWithFigureNumber(s) ==
    \E w \in {Text("figure"), Text("fig."), Text("table"), Text("tbl.")} :
        LET spaces == RunEnd(s, Len(w) + 1, Whitespace)
        IN  /\ HasAt(s, 1, w)
            /\ spaces >= Len(w) + 1
            /\ spaces < Len(s)
            /\ s[spaces + 1] \in Digits

\* one of skip_patterns is found in sent (re.IGNORECASE)
IsMetadata(sent) ==
    LET low == Lower(sent)
    IN  \/ StartsWithSectionNumber(low)
        \/ Contains(low, Text("..."))
        \/ (low # << >> /\ \A i \in DOMAIN low : low[i] \in Digits)
        \/ HasPhrase(low, <<Text("table"), Text("of"), Text("contents")>>)
        \/ \E i \in 1..Len(low) :
              LET end == PhraseEnd(low, i, <<Text("appendix")>>)
                  spaces == RunEnd(low, end + 1, Whitespace)
              IN  end > 0 /\ spaces >= end + 1 /\ spaces < Len(low)
                    /\ low[spaces + 1] \in Letter
        \/ Contains(low, Text("copyright"))
        \/ Contains(low, Text("(c)"))
        \/ StartsWithFigureNumber(low)
        \/ low \in {Text("reference"), Text("references"), Text("bibliography")}

\* str.isupper(): a cased character, and no lowercase one
IsUpper(s) ==
    /\ \E i \in DOMAIN s : s[i] \in Letter
    /\ \A i \in DOMAIN s : s[i] \notin Range(LowerCase)

\* str.istitle(): a cased character; capitals only after uncased characters,
\* lowercase letters only after cased ones
IsTitle(s) ==
    /\ \E i \in DOMAIN s : s[i] \in Letter
    /\ \A i \in DOMAIN s :
          LET after_cased == i > 1 /\ s[i - 1] \in Letter
          IN  /\ s[i] \in Range(UpperCase) => ~after_cased
              /\ s[i] \in Range(LowerCase) => after_cased

Verbs ==
    {Text("is"), Text("are"), Text("was"), Text("were"), Text("has"), Text("have"),
     Text("will"), Text("can"), Text("should")}

MinWords == 8
MaxWords == 50

is_quality_sentence(sentence) ==
    LET sent == Strip(sentence)
        word_count == WordCount(sent)
    IN  /\ ~(word_count < MinWords \/ word_count > MaxWords)
        /\ ~(10 * CountIn(sent, {"."}) > 4 * word_count)
        /\ ~(4 * CountIn(sent, Punctuation) > Len(sent))
        /\ ~(100 * CountIn(sent, Digits) > 15 * Len(sent))
        /\ ~IsMetadata(sent)
        /\ ~(100 * CountIn(sent, Letter \cup Whitespace) < 65 * Len(sent))
        /\ ~(IsUpper(sent)
               \/ (IsTitle(sent) /\ ~\E w \in Verbs : Contains(Lower(sent), w)))

key_indicators ==
    {Text("purpose"), Text("objective"), Text("goal"), Text("aims"), Text("designed"),
     Text("focuses"), Text("examines"), Text("proposes"), Text("describes"),
     Text("presents"), Text("introduces"), Text("analyzes"), Text("discusses"),
     Text("demonstrates"), Text("explores"), Text("investigates"), Text("reveals"),
     Text("shows"), Text("finds"), Text("concludes"), Text("recommends"),
     Text("suggests"), Text("argues"), Text("claims"), Text("emphasizes"),
     Text("highlights"), Text("important"), Text("significant"), Text("critical"),
     Text("essential"), Text("key"), Text("main"), Text("primary"),
     Text("fundamental"), Text("central"), Text("major"), Text("crucial")}

\* \b(first\s+second) is found in s, for some first and some second
HasWordPair(s, firsts, seconds) ==
    \E i \in 1..Len(s), first \in firsts, second \in seconds :
        Boundary(s, i) /\ PhraseEnd(s, i, <<first, second>>) > 0

\* get_sentence_importance_score, in tenths
get_sentence_importance_score(sent) ==
    LET sent_lower == Lower(sent)
    IN  5 * Cardinality({k \in key_indicators : Contains(sent_lower, k)})
          + (IF HasWordPair(sent_lower, {Text("this")},
                            {Text("paper"), Text("document"), Text("study"),
                             Text("research"), Text("report"), Text("article")})
             THEN 10 ELSE 0)
          + (IF HasWordPair(sent_lower, {Text("we")},
                            {Text("present"), Text("propose"), Text("introduce"),
                             Text("describe"), Text("analyze"), Text("demonstrate")})
             THEN 8 ELSE 0)
          + (IF HasWordPair(sent_lower, {Text("result"), Text("results")},
                            {Text("show"), Text("indicate"), Text("suggest"),
                             Text("demonstrate"), Text("reveal")})
             THEN 7 ELSE 0)

(***************************************************************************)
(* generate_document_summary (lines 364-584).  A similarity is an integer  *)
(* in units of 1 / SimilarityGrain (the cosines of the vectors drawn are   *)
(* whole multiples of it); a sentence score is kept to four decimals.      *)
(***************************************************************************)
EmptyMessage == "This document appears to be empty or contains no readable text."
UnableMessage == "Unable to generate summary - no valid sentences found in document."

SimilarityGrain == 25

\* np.dot(a, b) / (np.linalg.norm(a) * np.linalg.norm(b))
Similarity(a, b) == (SimilarityGrain * Dot(a, b)) \div (Norm(a) * Norm(b))

RelaxedMinWords == 5
RelaxedMaxWords == 40
SummaryCap == 600
CappedSentences == 3

\* lines 472-479: the sentences is_quality_sentence accepts, stripped, each
\* with its importance score
StrictSentences(sentences) ==
    LET quality == SelectSeq(sentences, is_quality_sentence)
    IN  [i \in DOMAIN quality |->
            [text |-> Strip(quality[i]),
             importance |-> get_sentence_importance_score(quality[i])]]

\* lines 481-484: the relaxed filter, every importance score 0.0
RelaxedSentences(sentences) ==
    LET relaxed == SelectSeq(sentences,
                        LAMBDA x : /\ Strip(x) # << >>
                                   /\ RelaxedMinWords <= WordCount(x)
                                   /\ WordCount(x) <= RelaxedMaxWords)
    IN  [i \in DOMAIN relaxed |-> [text |-> Strip(relaxed[i]), importance |-> 0]]

QualitySentences(content) ==
    LET cleaned == RemoveArtifacts(NormalizeWhitespace(content))
        sentences == SplitSentences(Strip(cleaned))
        strict == StrictSentences(sentences)
    IN  IF strict # << >> THEN strict ELSE RelaxedSentences(sentences)

Texts(items) == [i \in DOMAIN items |-> items[i].text]

\* lines 509-518, in tenths; i is the 0-based position among n sentences
PositionWeight(i, n) ==
    IF 100 * i < 15 * n THEN 15
    ELSE IF 100 * i < 35 * n THEN 13
    ELSE IF 100 * i > 85 * n THEN 11
    ELSE 9

\* lines 520-527, in tenths
LengthWeight(word_count) ==
    IF 15 <= word_count /\ word_count <= 30 THEN 12
    ELSE IF 10 <= word_count /\ word_count <= 35 THEN 10
    ELSE 8

\* lines 502-538: (i, score, sentence) of every quality sentence
SentenceScores(quality, sentence_embeddings, doc_embedding) ==
    [k \in DOMAIN quality |->
        [i |-> k - 1,
         score |-> RoundDiv(Similarity(sentence_embeddings[k], doc_embedding)
                               * PositionWeight(k - 1, Len(quality))
                               * LengthWeight(WordCount(quality[k].text))
                               * (10 + quality[k].importance) * 10,
                            SimilarityGrain),
         text |-> quality[k].text]]

Scores(items) == [k \in DOMAIN items |-> items[k].score]

\* the loop without lines 549-560: the remaining scores are left as they are
Penalized_not_at_all(remaining, best, sentence_embeddings) == remaining

\* lines 549-560: the scores of the remaining sentences lowered by their
\* similarity to the sentence just selected
Penalized(remaining, best, sentence_embeddings) ==
    [k \in DOMAIN remaining |->
        [remaining[k] EXCEPT
            !.score = RoundDiv(@ * (10 * SimilarityGrain
                                      - 3 * Similarity(sentence_embeddings[best.i + 1],
                                                       sentence_embeddings[remaining[k].i + 1])),
                               10 * SimilarityGrain)]]

\* lines 542-560: the while loop
RECURSIVE SelectSentences(_, _, _, _)
SelectSentences(selected, remaining_scores, max_sentences, sentence_embeddings) ==
    IF ~(Len(selected) < max_sentences /\ remaining_scores # << >>) THEN selected
    ELSE LET best == Head(remaining_scores)
             chosen == Append(selected, best)
             rest == Tail(remaining_scores)
             lowered == Penalized(rest, best, sentence_embeddings)
         IN  IF Len(chosen) < max_sentences /\ rest # << >>
             THEN SelectSentences(chosen, SortDescending(lowered, Scores(lowered)),
                                  max_sentences, sentence_embeddings)
             ELSE SelectSentences(chosen, rest, max_sentences, sentence_embeddings)

\* list.sort(key=lambda x: x[0]): ascending by position
InDocumentOrder(items) == SortDescending(items, [k \in DOMAIN items |-> -items[k].i])

\* lines 496-560: the sentences the loop selects, in the order of selection,
\* each with the score it had when it was selected
SelectedSentences(quality, max_sentences, sentence_embeddings, doc_embedding) ==
    LET sentence_scores == SentenceScores(quality, sentence_embeddings, doc_embedding)
    IN  SelectSentences(<< >>, SortDescending(sentence_scores, Scores(sentence_scores)),
                        max_sentences, sentence_embeddings)

\* lines 562-573: the summary made of the sentences selected
AssembleSummary(selected) ==
    LET selected_sentences == InDocumentOrder(selected)
        summary == Join(Texts(selected_sentences))
    IN  IF Len(summary) > SummaryCap /\ Len(selected_sentences) > CappedSentences
        THEN Join(Texts(SubSeq(selected_sentences, 1, CappedSentences)))
        ELSE summary

\* lines 496-575: the summary of the embedding path
RankedSummary(quality, max_sentences, sentence_embeddings, doc_embedding) ==
    AssembleSummary(SelectedSentences(quality, max_sentences,
                                      sentence_embeddings, doc_embedding))

\* lines 577-584 with the sort left out: the first sentences of the document
FallbackSummary_in_document_order(quality, max_sentences) ==
    Join(Texts(Slice(quality, 0, max_sentences)))

\* lines 577-584: the sentences of highest importance, best first
FallbackSummary(quality, max_sentences) ==
    LET scored == SortDescending(quality, [k \in DOMAIN quality |-> quality[k].importance])
    IN  Join(Texts(Slice(scored, 0, max_sentences)))

\* lines 489-584: the summary of a document that has quality sentences.
\* o says how the provider behaves: which of its steps raises ("load", the
\* encode of the sentences, the encode of the content, or "nothing") and the
\* vectors the two encodes return
SummaryOf(quality, max_sentences, m, o) ==
    LET g == get_embedding_model(m, o.fails # "load")
        encoded == [g.m EXCEPT !.encodes = @ + 1]
        encoded_twice == [g.m EXCEPT !.encodes = @ + 2]
    IN  IF Len(quality) <= max_sentences
        THEN [ret |-> Ok(Join(Texts(Slice(quality, 0, max_sentences)))), m |-> m, selected |-> << >>]
        ELSE IF ~g.ok THEN [ret |-> Ok(FallbackSummary(quality, max_sentences)), m |-> g.m, selected |-> << >>]
        ELSE IF o.fails = "encode_sentences"
             THEN [ret |-> Ok(FallbackSummary(quality, max_sentences)), m |-> encoded, selected |-> << >>]
        ELSE IF o.fails = "encode_content"
             THEN [ret |-> Ok(FallbackSummary(quality, max_sentences)), m |-> encoded_twice, selected |-> << >>]
        ELSE [ret |-> Ok(RankedSummary(quality, max_sentences,
                                       o.sentence_embeddings, o.doc_embedding)),
              m |-> encoded_twice,
              selected |-> SelectedSentences(quality, max_sentences,
                                             o.sentence_embeddings, o.doc_embedding)]

\* generate_document_summary without the test of line 377
generate_document_summary_unchecked(content, filename, max_sentences, m, o) ==
    LET quality == QualitySentences(OrEmpty(content))
    IN  IF quality = << >> THEN [ret |-> Ok(Text(UnableMessage)), m |-> m, selected |-> << >>]
        ELSE SummaryOf(quality, max_sentences, m, o)

\* generate_document_summary selecting one sentence more than max_sentences
generate_document_summary_one_more(content, filename, max_sentences, m, o) ==
    LET quality == QualitySentences(content)
    IN  IF content = None \/ IsBlank(content) THEN [ret |-> Ok(Text(EmptyMessage)), m |-> m, selected |-> << >>]
        ELSE IF quality = << >> THEN [ret |-> Ok(Text(UnableMessage)), m |-> m, selected |-> << >>]
        ELSE SummaryOf(quality, max_sentences + 1, m, o)

generate_document_summary(content, filename, max_sentences, m, o) ==
    LET quality == QualitySentences(content)
    IN  IF content = None \/ IsBlank(content) THEN [ret |-> Ok(Text(EmptyMessage)), m |-> m, selected |-> << >>]
        ELSE IF quality = << >> THEN [ret |-> Ok(Text(UnableMessage)), m |-> m, selected |-> << >>]
        ELSE SummaryOf(quality, max_sentences, m, o)

(***************************************************************************)
(* Retrieval over a documents table: the initial state draws the tables    *)
(* and the state of the embedding provider, every action is one call.      *)
(***************************************************************************)
Users == {1, 2}
Groups == {1}

RefundFile == [filename |-> Text("5008_refund_policy.pdf"),
               content |-> Text("Our refund policy applies to all orders.")]
ShippingFile == [filename |-> Text("shipping_rates.xlsx"),
                 content |-> Text("Shipping rates and policy")]
ScannedFile == [filename |-> Text("scan.pdf"), content |-> None]

\* a row of the documents table but for its id: a file as upload_document
\* stores it, the embedding None when indexing failed
Row(file, embedding, visibility, uploaded_by_id, user_group_id) ==
    [filename |-> file.filename, content |-> file.content, embedding |-> embedding,
     visibility |-> visibility, uploaded_by_id |-> uploaded_by_id,
     user_group_id |-> user_group_id]

Catalog ==
    {Row(RefundFile, Pad(<<3, 4>>), "private", 1, NoGroup),
     Row(RefundFile, NoVector, "public", 2, NoGroup),
     Row(ShippingFile, Pad(<<4, 3>>), "public", 2, NoGroup),
     Row(ShippingFile, Pad(<<-4, -3>>), "group", 2, 1),
     Row(ScannedFile, Pad(<<3, 4>>), "public", 1, NoGroup)}

RowSeqs == UNION {[1..n -> Catalog] : n \in 0..MaxDocs}

WithId(row, id) ==
    [id |-> id, filename |-> row.filename, content |-> row.content,
     embedding |-> row.embedding, visibility |-> row.visibility,
     uploaded_by_id |-> row.uploaded_by_id, user_group_id |-> row.user_group_id]

Tables == {[i \in DOMAIN rows |-> WithId(rows[i], i)] : rows \in RowSeqs}

Memberships == {{}, {<<1, 1>>}}

UploadFiles == {RefundFile, ScannedFile}
EmbedTexts == {None, Text(""), Text(" \t\n"), Text("refund policy")}
RankQueries == {Text(""), Text(" "), Text("refund policy")}
ChatQueries == {Text("refund policy"), Text("what about shipping")}
MinScores == {0, 1000, 5000}
ChatLimit == 5
Limits == {1, ChatLimit}
QueryEncodings == {Pad(<<3, 4>>), Pad(<<-4, -3>>)}

\* what the provider can do when called: encode returns a vector, or, while
\* the model is unset, its load fails
Outcomes ==
    {[load_ok |-> TRUE, encoding |-> e] : e \in QueryEncodings}
        \cup (IF embedding_model = "unset"
              THEN {[load_ok |-> FALSE, encoding |-> NoVector]} ELSE {})

Turn(role, content) == [role |-> role, content |-> content]
Histories ==
    {<< >>,
     <<Turn("user", Text("What is the refund window?")), Turn("assistant", Text("30 days"))>>,
     <<Turn("user", Text("returns")), Turn("user", Text("refunds")),
       Turn("assistant", Text("30 days")), Turn("user", Text("and shipping"))>>,
     <<Turn("user", Text("returns")), Turn("assistant", Text("30 days")),
       Turn("assistant", Text("from delivery")), Turn("assistant", Text("by post")),
       Turn("assistant", Text("anything else?"))>>}

InitRank ==
    /\ op = "init"
    /\ args = None
    /\ ret = None
    /\ \/ NoModel
       \/ embedding_model = "loaded" /\ model_loads = 1 /\ encode_calls = 1
    /\ documents \in Tables
    /\ members \in Memberships
    /\ NoThreads
    /\ NoSummaries
    /\ NoChat

\* the call returns: r is what it returned and the state it left the provider in
Completes(name, a, r) ==
    /\ op = "init"
    /\ op' = name
    /\ args' = a
    /\ ret' = r.ret
    /\ embedding_model' = r.m.model
    /\ model_loads' = r.m.loads
    /\ encode_calls' = r.m.encodes
    /\ UNCHANGED <<documents, members, pc, now, summaries, chat>>

GenerateEmbedding ==
    \E text \in EmbedTexts, o \in Outcomes :
        Completes("generate_embedding", [text |-> text],
                  generate_embedding(text, Provider, o.load_ok, o.encoding))

RankSearchResults ==
    /\ op = "init"
    /\ \E query \in RankQueries, min_score \in MinScores, o \in Outcomes :
          \E r \in {rank_search_results(query, documents, min_score,
                                        Provider, o.load_ok, o.encoding)} :
              Completes("rank_search_results",
                        [query |-> query, documents |-> documents, min_score |-> min_score],
                        r)

\* args.embedded is the text the call handed to generate_embedding
GetRelevantDocuments ==
    /\ op = "init"
    /\ \E user_id \in Users, query \in ChatQueries, history \in Histories, limit \in Limits,
          o \in Outcomes :
          \E r \in {get_relevant_documents(documents, members, user_id, query, history, limit,
                                           Provider, o.load_ok, o.encoding)} :
              Completes("get_relevant_documents",
                        [user_id |-> user_id, query |-> query,
                         conversation_history |-> history, limit |-> limit,
                         embedded |-> r.embedded],
                        r)

ReindexDocument ==
    \E file \in UploadFiles, o \in Outcomes :
        Completes("reindex_document",
                  [document_id |-> 0, content |-> OrEmpty(file.content),
                   filename |-> file.filename],
                  reindex_document(0, OrEmpty(file.content), file.filename,
                                   Provider, o.load_ok, o.encoding))

UploadDocument ==
    \E file \in UploadFiles, user_id \in Users, visibility \in {"private", "public"},
       o \in Outcomes :
        LET r == upload_document(documents, file, user_id, visibility,
                                 Provider, o.load_ok, o.encoding)
        IN  /\ op = "init"
            /\ op' = "upload_document"
            /\ args' = [file |-> file, user_id |-> user_id, visibility |-> visibility]
            /\ ret' = r.ret
            /\ embedding_model' = r.m.model
            /\ model_loads' = r.m.loads
            /\ encode_calls' = r.m.encodes
            /\ documents' = r.documents
            /\ UNCHANGED <<members, pc, now, summaries, chat>>

NextRank ==
    \/ GenerateEmbedding
    \/ RankSearchResults
    \/ GetRelevantDocuments
    \/ ReindexDocument
    \/ UploadDocument

SpecRank == InitRank /\ [][NextRank]_vars

(***************************************************************************)
(* get_embedding_model under the server's worker threads: the endpoints    *)
(* that reach it are plain functions, which the server runs on a thread    *)
(* pool, and nothing in the module locks.  A thread can be suspended       *)
(* between any two statements, so the test of line 23 and the assignment   *)
(* of line 25 are separate steps.                                          *)
(***************************************************************************)
MaxThreads == 2

Threads == 1..MaxThreads

Callers == {"generate_embedding", "generate_document_summary"}

At(t, line) == pc[t].at = line

Goto(t, line) == pc' = [pc EXCEPT ![t].at = line]

InitThreads ==
    /\ op = "init"
    /\ args = None
    /\ ret = None
    /\ NoModel
    /\ NoData
    /\ NoSummaries
    /\ NoChat
    /\ pc = [t \in Threads |-> [at |-> "idle", caller |-> "none"]]

\* a request reaches the call of get_embedding_model (line 43 or line 494)
CallGetEmbeddingModel(t) ==
    /\ At(t, "idle")
    /\ \E caller \in Callers : pc' = [pc EXCEPT ![t] = [at |-> "test", caller |-> caller]]
    /\ UNCHANGED <<op, args, ret, embedding_model, model_loads, encode_calls,
                   documents, members, now, summaries, chat>>

\* line 23: if _embedding_model is None
TestUnset(t) ==
    /\ At(t, "test")
    /\ Goto(t, IF embedding_model = "unset" THEN "construct" ELSE "return")
    /\ UNCHANGED <<op, args, ret, embedding_model, model_loads, encode_calls,
                   documents, members, now, summaries, chat>>

\* line 25: _embedding_model = SentenceTransformer('all-MiniLM-L6-v2')
Construct(t) ==
    /\ At(t, "construct")
    /\ embedding_model' = "loaded"
    /\ model_loads' = model_loads + 1
    /\ Goto(t, "return")
    /\ UNCHANGED <<op, args, ret, encode_calls, documents, members, now, summaries, chat>>

\* line 25 raising: the exception leaves get_embedding_model
ConstructFails(t) ==
    /\ At(t, "construct")
    /\ Goto(t, "raised")
    /\ UNCHANGED <<op, args, ret, embedding_model, model_loads, encode_calls,
                   documents, members, now, summaries, chat>>

\* line 27, then model.encode(...) in the caller (line 44 or line 497)
ReturnAndEncode(t) ==
    /\ At(t, "return")
    /\ encode_calls' = encode_calls + 1
    /\ Goto(t, "done")
    /\ UNCHANGED <<op, args, ret, embedding_model, model_loads,
                   documents, members, now, summaries, chat>>

NextThreads ==
    \E t \in Threads :
        \/ CallGetEmbeddingModel(t)
        \/ TestUnset(t)
        \/ Construct(t)
        \/ ConstructFails(t)
        \/ ReturnAndEncode(t)

SpecThreads == InitThreads /\ [][NextThreads]_vars

(***************************************************************************)
(* Summaries: every behaviour is one call of generate_document_summary.    *)
(***************************************************************************)
MaxSentences == 5

Purpose == "This document describes the refund policy of our online store."
Window == "Refunds are issued within thirty days of the original purchase."
Protect == "The main purpose of this policy is to protect every customer."
Receipt == "Customers must keep the receipt to claim any refund later on."
Results == "Our results indicate that remaining claims are key to this study."
Review == "Every refund request is reviewed by our support team within a week."
Heading == "1.2 Section about refunds that are issued to customers every year."
Note == "Short note about the refund rules."

\* a sentence of 31 words, 185 characters or so
Long(name) ==
    Text(name) \o Text(" branch handles refund requests that arrive by letter")
        \o Text(" and it answers each customer within seven working days after")
        \o Text(" the receipt was checked by two clerks of that same office.")

Paragraph(sentences) == Join(sentences)

SummaryContents ==
    {Text(""),
     Text(" \n\t "),
     Text("page 3"),
     Text("12 of 34 ... !"),
     Text(Note),
     Paragraph(<<Text(Heading), Text(Note)>>),
     Paragraph(<<Text(Purpose), Text(Window)>>),
     Paragraph(<<Text(Window), Text(Heading), Text(Results), Text("Page 2"), Text(Protect)>>),
     Paragraph(<<Text(Purpose), Text(Window), Text(Protect), Text(Receipt),
                 Text(Results), Text(Review)>>),
     Paragraph(<<Long("Our northern"), Long("Our southern"), Long("Our eastern"),
                 Long("Our western"), Long("Our central")>>)}

North == Pad(<<0, 5>>)
East == Pad(<<5, 0>>)
NorthEast == Pad(<<3, 4>>)
EastNorth == Pad(<<4, 3>>)
SouthWest == Pad(<<-4, -3>>)

\* model.encode of the sentences: the vector of the sentence at each position
SentenceEncodings ==
    {[k \in 1..6 |-> <<NorthEast, EastNorth, East, North, NorthEast, EastNorth>>[k]],
     [k \in 1..6 |-> <<SouthWest, North, East, EastNorth, NorthEast, NorthEast>>[k]],
     [k \in 1..6 |-> <<NorthEast, NorthEast, North, East, EastNorth, North>>[k]]}

Failing(step) == [fails |-> step, sentence_embeddings |-> << >>, doc_embedding |-> NoVector]

SummaryOutcomes ==
    {[fails |-> "nothing", sentence_embeddings |-> e, doc_embedding |-> NorthEast] :
        e \in SentenceEncodings}
        \cup {Failing("encode_sentences"), Failing("encode_content")}
        \cup (IF embedding_model = "unset" THEN {Failing("load")} ELSE {})

InitSummary ==
    /\ op = "init"
    /\ args = None
    /\ ret = None
    /\ \/ NoModel
       \/ embedding_model = "loaded" /\ model_loads = 1 /\ encode_calls = 1
    /\ NoData
    /\ NoThreads
    /\ NoSummaries
    /\ NoChat

\* args.selected is what the loop of lines 542-560 had selected, in the order
\* of selection, when the call reached it
GenerateDocumentSummary ==
    /\ op = "init"
    /\ \E content \in SummaryContents, max_sentences \in 1..MaxSentences, o \in SummaryOutcomes :
          \E r \in {generate_document_summary(content, Text("policy.pdf"), max_sentences,
                                              Provider, o)} :
              Completes("generate_document_summary",
                        [content |-> content, max_sentences |-> max_sentences,
                         fails |-> o.fails, sentence_embeddings |-> o.sentence_embeddings,
                         doc_embedding |-> o.doc_embedding, selected |-> r.selected],
                        r)

NextSummary == GenerateDocumentSummary

SpecSummary == InitSummary /\ [][NextSummary]_vars

(***************************************************************************)
(* chat_service.generate_chat_response and its helpers.  The bullet        *)
(* character of the replies is written "*".                                *)
(***************************************************************************)
ContainsAny(s, phrases) == \E phrase \in phrases : Contains(s, phrase)

greetings ==
    {Text("hello"), Text("hi"), Text("hey"), Text("greetings"), Text("good morning"),
     Text("good afternoon"), Text("good evening"), Text("howdy"), Text("sup"), Text("yo")}

locket_keywords ==
    {Text("what is locket"), Text("what are you"), Text("who are you"),
     Text("tell me about yourself"), Text("what do you do"), Text("your purpose"),
     Text("what can you do")}

general_patterns ==
    {Text("how are you"), Text("what's up"), Text("thank you"), Text("thanks"), Text("bye"),
     Text("goodbye"), Text("nice"), Text("cool"), Text("okay"), Text("ok"), Text("got it"),
     Text("i see"), Text("interesting")}

is_greeting(query) ==
    LET query_lower == Strip(Lower(query))
    IN  ContainsAny(query_lower, greetings) /\ Len(Split(query_lower)) <= 3

is_about_locket(query) == ContainsAny(Strip(Lower(query)), locket_keywords)

is_general_conversation(query) ==
    LET query_lower == Strip(Lower(query))
    IN  ContainsAny(query_lower, general_patterns) /\ Len(Split(query_lower)) <= 5

GreetingReply ==
    Text("Hello! I'm Locket, your AI document assistant. I can help you find information in your uploaded documents, answer questions, and have a conversation about your content. What would you like to know?")

AboutReply ==
    Text("I'm Locket, an AI-powered document retrieval assistant. I help you find and understand information from your uploaded documents.\n\n")
        \o Text("Here's what I can do:\n")
        \o Text("* Answer questions based on your documents\n")
        \o Text("* Search through PDFs, Word docs, and text files\n")
        \o Text("* Provide cited sources for my answers\n")
        \o Text("* Remember our conversation for context\n")
        \o Text("* Help you discover insights from your content\n\n")
        \o Text("Just ask me anything about your documents, and I'll search through them to find the most relevant information!")

\* the responses dictionary of lines 226-232, in its order
GeneralReplies ==
    <<<<Text("thank"), Text("You're welcome! Feel free to ask me anything else about your documents.")>>,
      <<Text("bye"), Text("Goodbye! Come back anytime you need help with your documents.")>>,
      <<Text("how are you"), Text("I'm doing great, thanks for asking! Ready to help you with your documents. What would you like to know?")>>,
      <<Text("nice"), Text("Glad I could help! Let me know if you have any other questions.")>>,
      <<Text("okay"), Text("Great! Is there anything else you'd like to know?")>>>>

GeneralDefaultReply == Text("I'm here to help! Ask me anything about your documents.")

GeneralReply(query) ==
    LET hits == {k \in DOMAIN GeneralReplies : Contains(Lower(query), GeneralReplies[k][1])}
    IN  IF hits = {} THEN GeneralDefaultReply
        ELSE GeneralReplies[CHOOSE k \in hits : \A l \in hits : k <= l][2]

QuestionWords ==
    {Text("how"), Text("what"), Text("why"), Text("when"), Text("where"), Text("who"),
     Text("explain"), Text("describe"), Text("tell me")}

NoDocumentsForQuestion ==
    Text("I searched through your documents but couldn't find specific information about that topic.\n\n")
        \o Text("Here are some suggestions:\n")
        \o Text("* Try rephrasing your question with different keywords\n")
        \o Text("* Check if you have uploaded documents related to this topic\n")
        \o Text("* Make sure the documents containing this information are uploaded and processed\n\n")
        \o Text("I'm here to help with any information in your documents. What else would you like to know?")

NoDocumentsYet ==
    Text("I don't have any documents that contain information about that yet. ")
        \o Text("If you upload documents related to this topic, I'll be able to help answer your questions!\n\n")
        \o Text("In the meantime, feel free to ask me about anything in your currently uploaded documents.")

generate_no_documents_response(query) ==
    IF ContainsAny(Lower(query), QuestionWords) THEN NoDocumentsForQuestion ELSE NoDocumentsYet

\* str(n) of a natural number
RECURSIVE Str(_)
Str(n) ==
    IF n < 10 THEN <<SubSeq("0123456789", n + 1, n + 1)>>
    ELSE Str(n \div 10) \o <<SubSeq("0123456789", (n % 10) + 1, (n % 10) + 1)>>

\* "\n".join(parts)
RECURSIVE JoinLines(_)
JoinLines(parts) ==
    IF parts = << >> THEN << >>
    ELSE IF Len(parts) = 1 THEN parts[1]
    ELSE parts[1] \o <<"\n">> \o JoinLines(Tail(parts))

StrongMatch == 5000      \* best_score > 0.5
TopDocs == 3             \* relevant_docs[:3]

intro_phrases ==
    <<Text("Great question! I found some very relevant information."),
      Text("I can help with that! Here's what I found in your documents."),
      Text("Perfect! I have good information about that.")>>

\* the parts the loop of lines 300-309 appends: one for each of the top three
\* documents whose excerpt is not empty
ExcerptParts(relevant_docs) ==
    LET top == SubSeq(relevant_docs, 1, Min(TopDocs, Len(relevant_docs)))
        shown == SelectSeq(top, LAMBDA t : t[3] # << >>)
    IN  [k \in DOMAIN shown |->
            IF Len(relevant_docs) > 1
            THEN Text("\n**From ") \o shown[k][1].filename \o Text(":**\n")
                     \o Strip(shown[k][3]) \o <<"\n">>
            ELSE <<"\n">> \o Strip(shown[k][3]) \o <<"\n">>]

\* choice is the phrase random.choice picks
generate_contextual_response(query, relevant_docs, choice) ==
    LET doc_count == Len(relevant_docs)
        best_score == relevant_docs[1][2]
        is_strong_match == best_score > StrongMatch
        intro ==
            IF is_strong_match THEN intro_phrases[choice] \o <<"\n">>
            ELSE IF doc_count = 1
                 THEN Text("I found this in '") \o relevant_docs[1][1].filename \o Text("':\n")
            ELSE Text("I found information in ") \o Str(doc_count)
                     \o Text(" documents that might help:\n")
        conclusion ==
            IF doc_count > TopDocs
            THEN Text("\n[+] I also found ") \o Str(doc_count - TopDocs)
                     \o Text(" other document(s) with related information. Let me know if you'd like more details!")
            ELSE IF is_strong_match
                 THEN Text("\n\nDoes this answer your question? Feel free to ask for clarification or more details!")
            ELSE Text("\n\nThis is what I found that's most relevant. If you need different information, try rephrasing your question!")
        response_parts == <<intro>> \o ExcerptParts(relevant_docs) \o <<conclusion>>
    IN  JoinLines(response_parts)

generate_chat_response(query, relevant_docs, choice) ==
    IF is_greeting(query) THEN GreetingReply
    ELSE IF is_about_locket(query) THEN AboutReply
    ELSE IF is_general_conversation(query) THEN GeneralReply(query)
    ELSE IF relevant_docs = << >> THEN generate_no_documents_response(query)
    ELSE generate_contextual_response(query, relevant_docs, choice)

(***************************************************************************)
(* chat_service.create_chat_citations and generate_chat_title              *)
(***************************************************************************)
CitationExcerptLength == 500
TitleLength == 50

\* the scores (in ten-thousandths) whose double, multiplied by 100, falls
\* just below the whole number: 0.29 * 100 is 28.999999999999996
FloatShort == {2900, 5700, 5800}

\* int(score * 100) of a score that is a double rounded to four places
Percent(score) ==
    IF score \in FloatShort THEN score \div (Unit4 \div 100) - 1
    ELSE score \div (Unit4 \div 100)

\* the citation rows of a message
create_chat_citations(message_id, relevant_docs) ==
    [k \in DOMAIN relevant_docs |->
        [message_id |-> message_id,
         document_id |-> relevant_docs[k][1].id,
         relevance_score |-> Percent(relevant_docs[k][2]),
         excerpt |-> IF relevant_docs[k][3] = << >> THEN None
                     ELSE Slice(relevant_docs[k][3], 0, CitationExcerptLength)]]

\* s.rsplit(' ', 1)[0]
BeforeLastSpace(s) ==
    LET spaces == {i \in DOMAIN s : s[i] = " "}
    IN  IF spaces = {} THEN s
        ELSE SubSeq(s, 1, (CHOOSE i \in spaces : \A j \in spaces : i >= j) - 1)

generate_chat_title(first_message, max_length) ==
    LET stripped == Strip(first_message)
        title == NormalizeWhitespace(stripped)
    IN  IF Len(title) > max_length
        THEN BeforeLastSpace(Slice(title, 0, max_length)) \o Ellipsis
        ELSE title

(***************************************************************************)
(* main.send_message for the one chat of the model, owned by ChatOwner.    *)
(* The AI service is the environment: it is unavailable (returns None),    *)
(* fails, or replies with a text.                                          *)
(***************************************************************************)
ChatOwner == 1
UsableScore == 2000      \* doc_tuple[1] > 0.2
MaxCitations == 5        \* usable_docs[:5]
NotFoundPhrase == Text("not found in your uploaded documents")

Message(role, content) == [role |-> role, content |-> content]

\* lines 3010-3021: the citations of the response
FormattedCitations(table, citations) ==
    LET known == SelectSeq(citations,
                           LAMBDA c : \E i \in DOMAIN table : table[i].id = c.document_id)
    IN  [k \in DOMAIN known |->
            [document_id |-> known[k].document_id,
             document_filename |->
                 table[CHOOSE i \in DOMAIN table : table[i].id = known[k].document_id].filename,
             relevance_score |-> known[k].relevance_score,
             excerpt |-> known[k].excerpt]]

\* lines 2937-2943: the call of get_relevant_documents
RelevantDocs(ch, table, memberships, user_id, content, m, load_ok, encoding) ==
    get_relevant_documents(table, memberships, user_id, content, ch.messages, ChatLimit,
                           m, load_ok, encoding)

\* lines 2945-2968 with the reply of the AI service thrown away
ResponseContent_template_always(ai, content, relevant_docs, choice) ==
    generate_chat_response(content, relevant_docs, choice)

\* lines 2945-2968: the reply of the AI service, or the templated reply when
\* the service returned None or raised
ResponseContent(ai, content, relevant_docs, choice) ==
    IF ai.kind = "reply" THEN ai.text
    ELSE generate_chat_response(content, relevant_docs, choice)

\* what the call returns and leaves behind: ret, the provider m, the chat, and
\* retrieved, the tuples get_relevant_documents returned (None when not called
\* or failed).  r is RelevantDocs(ch, table, ...), the outcome of line 2937,
\* and m the provider before the call.
send_message(ch, table, user_id, content, r, ai, choice, m) ==
    LET conversation_history == ch.messages
        saved == [ch EXCEPT !.messages = Append(@, Message("user", content))]
        relevant_docs == r.ret.val
        ai_response_content == ResponseContent(ai, content, relevant_docs, choice)
        message_id == Len(saved.messages) + 1
        response_lower == Lower(ai_response_content)
        info_not_in_docs == Contains(response_lower, NotFoundPhrase)
        usable_docs == SelectSeq(relevant_docs, LAMBDA t : t[2] > UsableScore)
        citations ==
            IF ~info_not_in_docs /\ relevant_docs # << >> /\ usable_docs # << >>
            THEN create_chat_citations(message_id, Slice(usable_docs, 0, MaxCitations))
            ELSE << >>
    IN  IF user_id # ChatOwner
        THEN [ret |-> Raise("HTTP 404"), m |-> m, chat |-> ch, retrieved |-> None]
        ELSE IF ~r.ret.ok
             THEN [ret |-> Raise("HTTP 500"), m |-> r.m, chat |-> saved, retrieved |-> None]
        ELSE [ret |-> Ok([id |-> message_id, role |-> "assistant",
                          content |-> ai_response_content,
                          citations |-> FormattedCitations(table, citations)]),
              m |-> r.m,
              chat |-> [title |-> IF ch.title = None /\ conversation_history = << >>
                                  THEN generate_chat_title(content, TitleLength)
                                  ELSE ch.title,
                        messages |-> Append(saved.messages,
                                            Message("assistant", ai_response_content)),
                        citations |-> ch.citations \o citations],
              retrieved |-> relevant_docs]

(***************************************************************************)
(* The chat: messages sent one after another to the one chat.              *)
(***************************************************************************)
MaxMessages == 2         \* the chat takes messages while it holds fewer than this

ParkingFile == [filename |-> Text("parking.txt"),
                content |-> Text("Visitors may park behind the main building on weekdays.")]

ChatTables ==
    {<< >>,
     <<WithId(Row(RefundFile, Pad(<<3, 4>>), "public", 2, NoGroup), 1)>>,
     <<WithId(Row(ShippingFile, Pad(<<4, 3>>), "private", 1, NoGroup), 1),
       WithId(Row(ParkingFile, Pad(<<-4, -3>>), "public", 2, NoGroup), 2)>>}

ChatInputs ==
    {Text("hi"), Text("What is Locket?"), Text("ok thanks"), Text("refund policy"),
     Text("what about shipping")}

AiOutcomes ==
    {[kind |-> "unavailable"], [kind |-> "fails"],
     [kind |-> "reply", text |-> Text("Refunds are made within 30 days.")],
     [kind |-> "reply", text |-> Text("Note: This information was not found in your uploaded documents.")]}

InitChat ==
    /\ op = "init"
    /\ args = None
    /\ ret = None
    /\ NoModel
    /\ documents \in ChatTables
    /\ members = {}
    /\ NoThreads
    /\ NoSummaries
    /\ NoChat

SendMessage ==
    /\ Len(chat.messages) < MaxMessages
    /\ \E user_id \in Users, content \in ChatInputs, o \in Outcomes :
        \E found \in {RelevantDocs(chat, documents, members, user_id, content,
                                   Provider, o.load_ok, o.encoding)} :
            \E ai \in AiOutcomes, choice \in DOMAIN intro_phrases :
                \E r \in {send_message(chat, documents, user_id, content, found, ai, choice,
                                        Provider)} :
                    /\ op' = "send_message"
                    /\ args' = [user_id |-> user_id, content |-> content, ai |-> ai.kind,
                                retrieved |-> r.retrieved]
                    /\ ret' = r.ret
                    /\ embedding_model' = r.m.model
                    /\ model_loads' = r.m.loads
                    /\ encode_calls' = r.m.encodes
                    /\ chat' = r.chat
                    /\ UNCHANGED <<documents, members, pc, now, summaries>>

NextChat == SendMessage

SpecChat == InitChat /\ [][NextChat]_vars

(***************************************************************************)
(* ai_service.generate_chat_response: the configured provider and the      *)
(* fallback from OpenRouter to Ollama.  What a provider does when asked is *)
(* a record: it is "unavailable", its call "raises", it returns "none", or *)
(* it gives a "reply" with a text; "request_fails" is the exception that   *)
(* openrouter_service catches itself.                                      *)
(***************************************************************************)
AiProviders == {"ollama", "openrouter"}

OpenRouterText == Text("Refunds are made within 30 days.")
OllamaText == Text("Note: This information was not found in your uploaded documents.")

OpenRouterOutcomes ==
    {[kind |-> "unavailable"], [kind |-> "raises"], [kind |-> "request_fails"],
     [kind |-> "none"], [kind |-> "reply", text |-> OpenRouterText]}

OllamaOutcomes ==
    {[kind |-> "unavailable"], [kind |-> "raises"], [kind |-> "none"],
     [kind |-> "reply", text |-> OllamaText]}

\* openrouter_service.generate_chat_response, called when the key is set:
\* the text of the first choice, None for an unexpected response or a failed
\* request; an exception outside its try block escapes
openrouter_generate_chat_response(openrouter) ==
    IF openrouter.kind = "reply" THEN Ok(openrouter.text)
    ELSE IF openrouter.kind = "raises" THEN Raise("Exception")
    ELSE Ok(None)

\* ai_service._generate_chat_response_ollama: None when Ollama is not
\* available or its chat call raises
generate_chat_response_ollama(ollama) ==
    IF ollama.kind = "reply" THEN ollama.text ELSE None

\* ai_service.generate_chat_response: the text, or None
ai_generate_chat_response(provider, openrouter, ollama) ==
    IF provider = "openrouter" /\ openrouter.kind # "unavailable"
           /\ openrouter_generate_chat_response(openrouter).ok
    THEN openrouter_generate_chat_response(openrouter).val
    ELSE generate_chat_response_ollama(ollama)

\* lines 2945-2953 of main.send_message: what the try block obtains from
\* ai_service, which raises when the module cannot be imported
AiOutcome(imported, provider, openrouter, ollama) ==
    IF ~imported THEN [kind |-> "fails"]
    ELSE IF ai_generate_chat_response(provider, openrouter, ollama) = None
         THEN [kind |-> "unavailable"]
    ELSE [kind |-> "reply", text |-> ai_generate_chat_response(provider, openrouter, ollama)]

ProviderCases ==
    [imported : BOOLEAN, provider : AiProviders, openrouter : OpenRouterOutcomes,
     ollama : OllamaOutcomes]

AiOutcomeOf(c) == AiOutcome(c.imported, c.provider, c.openrouter, c.ollama)

InitProvider ==
    /\ op = "init"
    /\ args = None
    /\ ret = None
    /\ NoModel
    /\ documents \in ChatTables
    /\ members = {}
    /\ NoThreads
    /\ NoSummaries
    /\ NoChat

\* one message to a new chat, answered through ai_service
SendMessageThroughProvider ==
    /\ op = "init"
    /\ \E content \in ChatInputs, o \in Outcomes :
        \E found \in {RelevantDocs(chat, documents, members, ChatOwner, content,
                                   Provider, o.load_ok, o.encoding)} :
            \E ai \in {AiOutcomeOf(c) : c \in ProviderCases}, choice \in DOMAIN intro_phrases :
                \E r \in {send_message(chat, documents, ChatOwner, content, found, ai, choice,
                                        Provider)} :
                    \E c \in {x \in ProviderCases : AiOutcomeOf(x) = ai} :
                        /\ op' = "send_message"
                        /\ args' = [user_id |-> ChatOwner, content |-> content,
                                    ai |-> ai.kind, retrieved |-> r.retrieved,
                                    imported |-> c.imported, provider |-> c.provider,
                                    openrouter |-> c.openrouter, ollama |-> c.ollama]
                        /\ ret' = r.ret
                        /\ embedding_model' = r.m.model
                        /\ model_loads' = r.m.loads
                        /\ encode_calls' = r.m.encodes
                        /\ chat' = r.chat
                        /\ UNCHANGED <<documents, members, pc, now, summaries>>

NextProvider == SendMessageThroughProvider

SpecProvider == InitProvider /\ [][NextProvider]_vars

(***************************************************************************)
(* main.get_document_summary: the summary endpoint and its cache.  Time    *)
(* is counted in days; NoTime is the NULL of summary_generated_at.         *)
(***************************************************************************)
NoTime == -1
cache_expiry_days == 30
EndpointSentences == 5       \* max_sentences=5
FallbackSummaryText == Text("Unable to generate summary at this time. Please try again later.")

NotStored == [summary |-> None, summary_generated_at |-> NoTime]

is_user_in_group(memberships, user_id, group_id) ==
    group_id # NoGroup /\ <<user_id, group_id>> \in memberships

SummaryResponse(document, summary, is_cached, generated_at) ==
    [id |-> document.id, filename |-> document.filename, summary |-> summary,
     is_cached |-> is_cached, generated_at |-> generated_at]

Only(S) == CHOOSE x \in S : TRUE

\* lines 1131-1145: the new summary, and the provider after it was made.
\* An outcome that fails at "generate" is an exception that leaves
\* generate_document_summary (one raised outside its own try block).
NewSummary(document, m, o) ==
    IF document.content = None \/ IsBlank(document.content)
    THEN [summary |-> Text(EmptyMessage), m |-> m]
    ELSE IF o.fails = "generate" THEN [summary |-> FallbackSummaryText, m |-> m]
    ELSE Only({[summary |-> IF g.ret.ok THEN g.ret.val ELSE FallbackSummaryText, m |-> g.m] :
                  g \in {generate_document_summary(content, document.filename,
                                                   EndpointSentences, m, o) :
                             content \in {document.content}}})

\* get_document_summary taking a summary of exactly 30 days for fresh
get_document_summary_fresh_at_30(table, memberships, stored, current_user, document_id, clock, m, o) ==
    LET found == {i \in DOMAIN table : table[i].id = document_id}
        document == table[CHOOSE i \in found : TRUE]
        cached == stored[document_id]
        unchanged == [m |-> m, summaries |-> stored]
    IN  IF found = {} THEN [ret |-> Raise("HTTP 404")] @@ unchanged
        ELSE IF current_user.role # "admin" /\ document.visibility = "private"
                    /\ document.uploaded_by_id # current_user.id
             THEN [ret |-> Raise("HTTP 403")] @@ unchanged
        ELSE IF current_user.role # "admin" /\ document.visibility = "group"
                    /\ ~is_user_in_group(memberships, current_user.id, document.user_group_id)
             THEN [ret |-> Raise("HTTP 403")] @@ unchanged
        ELSE IF cached.summary # None /\ cached.summary # << >>
                    /\ cached.summary_generated_at # NoTime
                    /\ clock - cached.summary_generated_at <= cache_expiry_days
             THEN [ret |-> Ok(SummaryResponse(document, cached.summary, TRUE,
                                              cached.summary_generated_at))] @@ unchanged
        ELSE Only({[ret |-> Ok(SummaryResponse(document, new.summary, FALSE, clock)),
                    m |-> new.m,
                    summaries |-> [stored EXCEPT ![document_id] =
                                      [summary |-> new.summary,
                                       summary_generated_at |-> clock]]] :
                      new \in {NewSummary(document, m, o)}})

get_document_summary(table, memberships, stored, current_user, document_id, clock, m, o) ==
    LET found == {i \in DOMAIN table : table[i].id = document_id}
        document == table[CHOOSE i \in found : TRUE]
        cached == stored[document_id]
        unchanged == [m |-> m, summaries |-> stored]
    IN  IF found = {} THEN [ret |-> Raise("HTTP 404")] @@ unchanged
        ELSE IF current_user.role # "admin" /\ document.visibility = "private"
                    /\ document.uploaded_by_id # current_user.id
             THEN [ret |-> Raise("HTTP 403")] @@ unchanged
        ELSE IF current_user.role # "admin" /\ document.visibility = "group"
                    /\ ~is_user_in_group(memberships, current_user.id, document.user_group_id)
             THEN [ret |-> Raise("HTTP 403")] @@ unchanged
        ELSE IF cached.summary # None /\ cached.summary # << >>
                    /\ cached.summary_generated_at # NoTime
                    /\ clock - cached.summary_generated_at < cache_expiry_days
             THEN [ret |-> Ok(SummaryResponse(document, cached.summary, TRUE,
                                              cached.summary_generated_at))] @@ unchanged
        ELSE Only({[ret |-> Ok(SummaryResponse(document, new.summary, FALSE, clock)),
                    m |-> new.m,
                    summaries |-> [stored EXCEPT ![document_id] =
                                      [summary |-> new.summary,
                                       summary_generated_at |-> clock]]] :
                      new \in {NewSummary(document, m, o)}})

(***************************************************************************)
(* The summary cache over time: requests for summaries while days pass.    *)
(***************************************************************************)
MaxDay == 45         \* the clock stops here
TickDays == 15       \* the days that pass between two looks at the clock

PolicyFile == [filename |-> Text("policy.pdf"),
               content |-> Paragraph(<<Text(Purpose), Text(Window), Text(Protect),
                                       Text(Receipt), Text(Results), Text(Review)>>)]

CacheTable ==
    <<WithId(Row(PolicyFile, Pad(<<3, 4>>), "private", 1, NoGroup), 1),
      WithId(Row(ScannedFile, NoVector, "group", 2, 1), 2)>>

CacheUsers == {[id |-> 1, role |-> "user"], [id |-> 2, role |-> "user"]}

\* the provider encodes, or fails at the first encode, or, while the model is
\* unset, fails to load it; or generate_document_summary itself raises
CacheOutcomes ==
    {[fails |-> "nothing", sentence_embeddings |-> e, doc_embedding |-> NorthEast] :
        e \in {[k \in 1..6 |-> <<NorthEast, EastNorth, East, North, NorthEast, EastNorth>>[k]]}}
        \cup {Failing("encode_sentences"), Failing("generate")}
        \cup (IF embedding_model = "unset" THEN {Failing("load")} ELSE {})

DocumentIds == 1..3

InitCache ==
    /\ op = "init"
    /\ args = None
    /\ ret = None
    /\ NoModel
    /\ documents = CacheTable
    /\ members = {<<1, 1>>}
    /\ NoThreads
    /\ now = 0
    /\ summaries = [i \in DOMAIN CacheTable |-> NotStored]
    /\ NoChat

Tick ==
    /\ now + TickDays <= MaxDay
    /\ now' = now + TickDays
    /\ op' = "tick"
    /\ args' = None
    /\ ret' = None
    /\ UNCHANGED <<embedding_model, model_loads, encode_calls, documents, members, pc,
                   summaries, chat>>

GetDocumentSummary ==
    \E current_user \in CacheUsers, document_id \in DocumentIds, o \in CacheOutcomes :
        \E r \in {get_document_summary(documents, members, summaries, current_user,
                                        document_id, now, Provider, o)} :
            /\ op' = "get_document_summary"
            /\ args' = [document_id |-> document_id, current_user |-> current_user]
            /\ ret' = r.ret
            /\ embedding_model' = r.m.model
            /\ model_loads' = r.m.loads
            /\ encode_calls' = r.m.encodes
            /\ summaries' = r.summaries
            /\ UNCHANGED <<documents, members, pc, now, chat>>

NextCache ==
    \/ Tick
    \/ GetDocumentSummary

SpecCache == InitCache /\ [][NextCache]_vars

(***************************************************************************)
(* The classifiers of a chat message and the relevance written for a       *)
(* score, as pure functions: the initial state draws one call, the action  *)
(* of that function applies it.                                            *)
(***************************************************************************)
\* ai_service.py:79-83
casual_phrases ==
    {Text("hi"), Text("hello"), Text("hey"), Text("sup"), Text("yo"), Text("howdy"),
     Text("greetings"), Text("how are you"), Text("how's it going"), Text("what's up"),
     Text("good morning"), Text("good afternoon"), Text("good evening"), Text("thanks"),
     Text("thank you")}

\* s.startswith(prefix)
StartsWith(s, prefix) == Len(prefix) <= Len(s) /\ SubSeq(s, 1, Len(prefix)) = prefix

\* ai_service.py:77-85: is_casual
is_casual(query) ==
    LET query_lower == Strip(Lower(query))
    IN  \/ \E phrase \in casual_phrases :
              phrase = query_lower \/ StartsWith(query_lower, phrase \o <<" ">>)
        \/ Len(Split(query_lower)) <= 3

PromptScore == 1500            \* score > 0.15
PromptDocs == 8                \* relevant_docs[:8]
PromptExcerptLength == 600     \* excerpt[:600]

\* "\n\n".join(parts)
RECURSIVE JoinParagraphs(_)
JoinParagraphs(parts) ==
    IF parts = << >> THEN << >>
    ELSE IF Len(parts) = 1 THEN parts[1]
    ELSE parts[1] \o Text("\n\n") \o JoinParagraphs(Tail(parts))

\* ai_service.py:111-114
doc_context(usable_docs) ==
    JoinParagraphs([k \in DOMAIN usable_docs |->
        Text("[Document: ") \o usable_docs[k][1].filename \o Text(" | Relevance: ")
            \o Str(Percent(usable_docs[k][2])) \o Text("%]\n")
            \o Slice(usable_docs[k][3], 0, PromptExcerptLength)])

\* ai_service.py:98-125: the user message _generate_chat_response_ollama
\* sends to the model
user_message(query, relevant_docs) ==
    LET usable_docs ==
            SelectSeq(SubSeq(relevant_docs, 1, Min(PromptDocs, Len(relevant_docs))),
                      LAMBDA t : t[2] > PromptScore)
    IN  IF is_casual(query) \/ usable_docs = << >> THEN query
        ELSE Text("Question: ") \o query
                 \o Text("\n\nDOCUMENTS PROVIDED (use these to answer):\n")
                 \o doc_context(usable_docs)
                 \o Text("\n\nIMPORTANT: Since I'm providing documents, use them to answer the question. Only add the \"not found\" warning if these documents don't actually contain the answer.")

ReplyQueries ==
    {Text(""), Text("hi"), Text(" HI "), Text("Hello there"),
     Text("hello there my dear friend"), Text("good morning"),
     Text("good morning to all of you"), Text("hey what is the refund policy"),
     Text("who are you"), Text("What are you?"), Text("what is locket"),
     Text("tell me about yourself please"), Text("what can you do for me today"),
     Text("thank you"), Text("ok thanks"), Text("thanks a lot for the help"),
     Text("nice"), Text("got it"), Text("cool now explain the archive retention rules"),
     Text("refund policy"), Text("what about shipping"),
     Text("shipping costs for overseas orders"),
     Text("please explain the archive retention rules"), Text("how do refunds work")}

CitedFile == WithId(Row(RefundFile, NoVector, "public", 1, NoGroup), 1)
OtherFile == WithId(Row(ShippingFile, NoVector, "public", 1, NoGroup), 2)

ReplyExcerpts ==
    {<< >>, Text("Our refund policy applies to all orders."), Repeat(Text("refund "), 90)}

\* a list of (document, score, excerpt) tuples as get_relevant_documents
\* returns them
ReplyDocs ==
    {<< >>,
     <<<<CitedFile, 4000, Text("Our refund policy applies to all orders.")>>>>,
     <<<<CitedFile, 6000, Text("Our refund policy applies to all orders.")>>,
       <<OtherFile, 1320, Text("Shipping rates and policy")>>>>}

ScoredDocs == {<<<<CitedFile, t, e>>>> : t \in 0..Unit4, e \in ReplyExcerpts}

ClassifyArgs ==
    [fn : {"is_greeting", "is_casual", "is_about_locket", "is_general_conversation"},
     query : ReplyQueries]
ResponseArgs ==
    [fn : {"generate_chat_response"}, query : ReplyQueries, relevant_docs : ReplyDocs,
     choice : DOMAIN intro_phrases]
CitationArgs == [fn : {"create_chat_citations"}, message_id : {1}, relevant_docs : ScoredDocs]
PromptArgs ==
    [fn : {"user_message"}, query : {Text("how do refunds work")},
     relevant_docs : {d \in ScoredDocs : d[1][3] # << >>}]

InitReply ==
    /\ op = "init"
    /\ ret = None
    /\ NoModel
    /\ NoData
    /\ NoThreads
    /\ NoSummaries
    /\ NoChat
    /\ \/ args \in ClassifyArgs
       \/ args \in ResponseArgs
       \/ args \in CitationArgs
       \/ args \in PromptArgs

IsGreeting == Returns("is_greeting", is_greeting(args.query))
IsCasual == Returns("is_casual", is_casual(args.query))
IsAboutLocket == Returns("is_about_locket", is_about_locket(args.query))
IsGeneralConversation ==
    Returns("is_general_conversation", is_general_conversation(args.query))
GenerateChatResponse ==
    Returns("generate_chat_response",
            generate_chat_response(args.query, args.relevant_docs, args.choice))
CreateChatCitations ==
    Returns("create_chat_citations",
            create_chat_citations(args.message_id, args.relevant_docs))
UserMessage == Returns("user_message", user_message(args.query, args.relevant_docs))

NextReply ==
    \/ IsGreeting
    \/ IsCasual
    \/ IsAboutLocket
    \/ IsGeneralConversation
    \/ GenerateChatResponse
    \/ CreateChatCitations
    \/ UserMessage

SpecReply == InitReply /\ [][NextReply]_vars

(***************************************************************************)
(* Retrieval while the documents table and the group memberships change:   *)
(* uploads with a visibility, users added to and removed from groups, and  *)
(* get_relevant_documents in between, in any order.                        *)
(***************************************************************************)
MaxCalls == 3

\* user_groups.created_by_id
GroupCreators == [g \in Groups |-> 1]

\* crud.add_user_to_group
add_user_to_group(memberships, user_id, group_id) ==
    IF is_user_in_group(memberships, user_id, group_id)
    THEN [ret |-> Ok(FALSE), members |-> memberships]
    ELSE [ret |-> Ok(TRUE), members |-> memberships \cup {<<user_id, group_id>>}]

\* crud.remove_user_from_group
remove_user_from_group(memberships, user_id, group_id) ==
    IF group_id \in DOMAIN GroupCreators /\ GroupCreators[group_id] = user_id
    THEN [ret |-> Ok(FALSE), members |-> memberships]
    ELSE IF <<user_id, group_id>> \in memberships
         THEN [ret |-> Ok(TRUE), members |-> memberships \ {<<user_id, group_id>>}]
    ELSE [ret |-> Ok(FALSE), members |-> memberships]

\* main.upload_document with the validation of its visibility (lines
\* 817-837): a group upload names a group of which the user is a member
upload_with_visibility(table, memberships, file, user_id, visibility, user_group_id, m, load_ok, encoding) ==
    IF visibility = "group" /\ user_group_id = NoGroup
    THEN [ret |-> Raise("HTTP 400"), m |-> m, documents |-> table]
    ELSE IF visibility = "group" /\ ~is_user_in_group(memberships, user_id, user_group_id)
         THEN [ret |-> Raise("HTTP 403"), m |-> m, documents |-> table]
    ELSE LET r == upload_document(table, file, user_id, visibility, m, load_ok, encoding)
             group == IF visibility = "group" THEN user_group_id ELSE NoGroup
         IN  [r EXCEPT !.documents[Len(table) + 1].user_group_id = group]

AccessQuery == Text("refund policy")
AccessEncoding == Pad(<<3, 4>>)

\* the visibility settings of an upload, each with the group it names
Visibilities ==
    {<<"private", NoGroup>>, <<"public", NoGroup>>, <<"group", NoGroup>>}
        \cup {<<"group", g>> : g \in Groups}

InitAccess ==
    /\ op = "init"
    /\ args = None
    /\ ret = None
    /\ embedding_model = "loaded" /\ model_loads = 1 /\ encode_calls = 0
    /\ documents = << >>
    /\ members \in Memberships
    /\ NoThreads
    /\ NoSummaries
    /\ NoChat

UploadWithVisibility ==
    /\ Len(documents) < MaxDocs
    /\ encode_calls < MaxCalls
    /\ \E user_id \in Users, v \in Visibilities :
          \E r \in {upload_with_visibility(documents, members, RefundFile, user_id, v[1], v[2],
                                           Provider, TRUE, AccessEncoding)} :
              /\ op' = "upload_document"
              /\ args' = [file |-> RefundFile, user_id |-> user_id, visibility |-> v[1],
                          user_group_id |-> v[2]]
              /\ ret' = r.ret
              /\ embedding_model' = r.m.model
              /\ model_loads' = r.m.loads
              /\ encode_calls' = r.m.encodes
              /\ documents' = r.documents
              /\ UNCHANGED <<members, pc, now, summaries, chat>>

AddUserToGroup ==
    \E user_id \in Users, g \in Groups :
        \E r \in {add_user_to_group(members, user_id, g)} :
            /\ op' = "add_user_to_group"
            /\ args' = [user_id |-> user_id, group_id |-> g]
            /\ ret' = r.ret
            /\ members' = r.members
            /\ UNCHANGED <<embedding_model, model_loads, encode_calls, documents,
                           pc, now, summaries, chat>>

RemoveUserFromGroup ==
    \E user_id \in Users, g \in Groups :
        \E r \in {remove_user_from_group(members, user_id, g)} :
            /\ op' = "remove_user_from_group"
            /\ args' = [user_id |-> user_id, group_id |-> g]
            /\ ret' = r.ret
            /\ members' = r.members
            /\ UNCHANGED <<embedding_model, model_loads, encode_calls, documents,
                           pc, now, summaries, chat>>

RetrieveDocuments ==
    /\ encode_calls < MaxCalls
    /\ \E user_id \in Users :
          \E r \in {get_relevant_documents(documents, members, user_id, AccessQuery, << >>,
                                           ChatLimit, Provider, TRUE, AccessEncoding)} :
              /\ op' = "get_relevant_documents"
              /\ args' = [user_id |-> user_id, query |-> AccessQuery,
                          conversation_history |-> << >>, limit |-> ChatLimit,
                          embedded |-> r.embedded]
              /\ ret' = r.ret
              /\ embedding_model' = r.m.model
              /\ model_loads' = r.m.loads
              /\ encode_calls' = r.m.encodes
              /\ UNCHANGED <<documents, members, pc, now, summaries, chat>>

NextAccess ==
    \/ UploadWithVisibility
    \/ AddUserToGroup
    \/ RemoveUserFromGroup
    \/ RetrieveDocuments

SpecAccess == InitAccess /\ [][NextAccess]_vars

(***************************************************************************)
(* Claims about the scorers (SpecScore).                                   *)
(***************************************************************************)
Returned(fn) == op = fn

ScoreNames == {"semantic", "keyword", "fuzzy", "filename", "total"}

\* C1: each of the five values calculate_hybrid_score returns (semantic,
\* keyword, fuzzy, filename, total) lies in [0, 1], also when the dot product
\* of the two embeddings is negative.
C1_ScoresInUnitInterval ==
    (Returned("calculate_hybrid_score") /\ ret.ok)
        => \A k \in ScoreNames : 0 <= ret.val[k] /\ ret.val[k] <= Unit4

\* the weighted sum of a breakdown's own (rounded) component values, in millionths
WeightedSumOf(b) ==
    SemanticWeight * b.semantic + FilenameWeight * b.filename
        + KeywordWeight * b.keyword + FuzzyWeight * b.fuzzy

\* C2 as stated: total equals 0.40*semantic + 0.30*filename + 0.20*keyword +
\* 0.10*fuzzy of the values of the same breakdown (a floating-point tolerance is
\* far below one millionth, so the two agree to the millionth).
C2_TotalIsWeightedSumOfBreakdown ==
    (Returned("calculate_hybrid_score") /\ ret.ok)
        => 100 * ret.val.total = WeightedSumOf(ret.val)

\* C2 as amended: total is within 0.0001 of the weighted sum of the values of
\* the same breakdown (total is rounded from the unrounded scores, and every
\* component of the breakdown is rounded on its own).
C2_TotalWithinRoundingOfWeightedSum ==
    (Returned("calculate_hybrid_score") /\ ret.ok)
        => Abs(100 * ret.val.total - WeightedSumOf(ret.val)) <= 100

\* a breakdown with four non-zero signals whose total differs from the weighted
\* sum of its rounded components
C2_Witness ==
    /\ Returned("calculate_hybrid_score") /\ ret.ok
    /\ \A k \in ScoreNames : ret.val[k] > 0
    /\ 100 * ret.val.total # WeightedSumOf(ret.val)

\* a vector that is absent, empty or of norm zero
HasNoDirection(v) == v = NoVector \/ v.dim = 0 \/ \A i \in DOMAIN v.head : v.head[i] = 0

\* C6: cosine_similarity_score returns exactly 0.0 and does not raise whenever
\* either vector is absent, empty or of zero norm, whatever the other vector is
\* (a vector of another length included).
C6_ZeroVectorScoresZero ==
    (Returned("cosine_similarity_score")
        /\ (HasNoDirection(args.vec1) \/ HasNoDirection(args.vec2)))
        => (ret.ok /\ ret.val = 0)

\* a zero vector of length 2 against a non-zero vector of the embedding dimension
C6_Witness ==
    /\ Returned("cosine_similarity_score")
    /\ args.vec1 = Vec(2, << >>)
    /\ args.vec2.dim = EmbeddingDim /\ ~HasNoDirection(args.vec2)
    /\ ret.ok /\ ret.val = 0

\* the lowercased words of a text
WordsOf(s) == Range(Split(Lower(s)))

\* sub occurs in s
Occurs(sub, s) == \E i \in 0..(Len(s) - Len(sub)) : SubSeq(s, i + 1, i + Len(sub)) = sub

\* C7: fuzzy_match_score returns 0.0 when the query or the content is empty;
\* otherwise 1.0 when the lowercased query is a substring of the lowercased
\* content, and otherwise |Q \cap C| / |Q| (to the millionth) for the sets Q and C
\* of whitespace-separated lowercased words of query and content.
C7_FuzzyScore ==
    Returned("fuzzy_match_score") =>
        LET Q == WordsOf(args.query)
            C == WordsOf(args.text)
            n == Cardinality(Q \cap C)
        IN  IF args.query = << >> \/ args.text = << >> THEN ret = 0
            ELSE IF Occurs(Lower(args.query), Lower(args.text)) THEN ret = Unit
            ELSE Q # {} => (ret * Cardinality(Q) <= n * Unit
                            /\ n * Unit < (ret + 1) * Cardinality(Q))

\* a query that is no substring of the content and shares one of its two words
C7_Witness ==
    /\ Returned("fuzzy_match_score")
    /\ ~Occurs(Lower(args.query), Lower(args.text))
    /\ Cardinality(WordsOf(args.query)) = 2
    /\ Cardinality(WordsOf(args.query) \cap WordsOf(args.text)) = 1
    /\ \E i \in DOMAIN args.query : args.query[i] = "A"
    /\ ret = Unit \div 2

\* C8: for a non-empty query and filename, filename_match_score scores the
\* lowercased query against the normalized filename: 1.0 if they are equal, 0.9
\* if either is a substring of the other, otherwise min(1.0, 1.3 * overlap /
\* |query_words|) over the stop-word-free words longer than 2 characters, 0.0
\* without overlap; and "refund policy" against "5008_refund_policy.pdf" scores
\* at least 0.9, that filename normalizing to "refund policy".
C8_FilenameScore ==
    /\ CleanFilename(Text("5008_refund_policy.pdf")) = Text("refund policy")
    /\ (Returned("filename_match_score") /\ args.query # << >> /\ args.filename # << >>) =>
        LET q == Lower(args.query)
            name == CleanFilename(args.filename)
            Q == {w \in WordsOf(q) : Len(w) > 2 /\ w \notin stop_words}
            F == {w \in WordsOf(name) : Len(w) > 2 /\ w \notin stop_words}
            n == Cardinality(Q \cap F)
        IN  /\ \A i \in DOMAIN name : name[i] \notin {"_", "-"} \cup Range(UpperCase)
            /\ IF q = name THEN ret = Unit
               ELSE IF Occurs(q, name) \/ Occurs(name, q) THEN 10 * ret = 9 * Unit
               ELSE IF n = 0 THEN ret = 0
               ELSE IF 13 * n >= 10 * Cardinality(Q) THEN ret = Unit
               ELSE /\ ret * 10 * Cardinality(Q) <= 13 * n * Unit
                    /\ 13 * n * Unit < (ret + 1) * 10 * Cardinality(Q)
    /\ (Returned("filename_match_score") /\ args.query = Text("refund policy")
            /\ args.filename = Text("5008_refund_policy.pdf")) => 10 * ret >= 9 * Unit

\* every word of the query is in the filename, in another order: the boosted
\* ratio 1.3 is clamped to 1.0
C8_Witness ==
    /\ Returned("filename_match_score")
    /\ args.query = Text("policy refund")
    /\ args.filename = Text("5008_refund_policy.pdf")
    /\ ret = Unit

\* C9: the snippet has at most max_length + 6 characters, is non-empty whenever
\* the content is non-empty, and is empty when the content is empty.
C9_SnippetBound ==
    Returned("extract_relevant_snippet") =>
        /\ Len(ret) <= args.max_length + 6
        /\ (args.content # None /\ args.content # << >>) => ret # << >>
        /\ (args.content = None \/ args.content = << >>) => ret = << >>

(***************************************************************************)
(* Claims about ranking and retrieval (SpecRank).                          *)
(***************************************************************************)
ProviderVars == <<embedding_model, model_loads, encode_calls>>

\* the vectors generate_embedding can have returned for a text
PossibleEmbeddings(text) == IF IsBlank(text) THEN {ZeroVector} ELSE QueryEncodings

TotalOf(query_embedding, query, d) ==
    calculate_hybrid_score(query_embedding, d.embedding, query, d.content, d.filename).val.total

Ranked == op = "rank_search_results" /\ ret.ok
Retrieved == op = "get_relevant_documents" /\ ret.ok

\* the results are exactly the documents whose total is not below min_score
FilteredAt(query_embedding) ==
    /\ \A k \in DOMAIN ret.val :
          /\ ret.val[k].relevance_score = TotalOf(query_embedding, args.query, ret.val[k].doc)
          /\ ret.val[k].relevance_score >= args.min_score
          /\ \E i \in DOMAIN args.documents : ret.val[k].doc = args.documents[i]
    /\ \A i \in DOMAIN args.documents :
          TotalOf(query_embedding, args.query, args.documents[i]) >= args.min_score
              => \E k \in DOMAIN ret.val : ret.val[k].doc = args.documents[i]

\* C3 as stated: for every query, document list and min_score, no result of
\* rank_search_results has a total below min_score and every input document
\* whose total is at least min_score is among the results.
C3_ThresholdFilterEveryQuery ==
    Ranked => \E qe \in PossibleEmbeddings(args.query) : FilteredAt(qe)

\* C3 amended: the same, for every query that is not the empty string (an
\* empty query returns no result whatever the totals are).
C3_ThresholdFilterNonEmptyQuery ==
    (Ranked /\ args.query # << >>) => \E qe \in PossibleEmbeddings(args.query) : FilteredAt(qe)

\* a ranking that kept one document and dropped another
C3_Witness ==
    /\ Ranked
    /\ args.query # << >>
    /\ Len(args.documents) = 2
    /\ Len(ret.val) = 1
    /\ ret.val[1].relevance_score >= args.min_score

NonIncreasing(scores) ==
    \A i, j \in DOMAIN scores : i < j => scores[i] >= scores[j]

Candidates == Scorable(AccessibleDocs(documents, members, args.user_id))

\* the tuples returned are the limit highest-scored candidates, best first
TopLimitAt(query_embedding) ==
    /\ Len(ret.val) = Min(args.limit, Len(Candidates))
    /\ NonIncreasing([k \in DOMAIN ret.val |-> ret.val[k][2]])
    /\ \A k \in DOMAIN ret.val :
          /\ ret.val[k][1] \in Range(Candidates)
          /\ ret.val[k][2] = TotalOf(query_embedding, args.query, ret.val[k][1])
    /\ \A k, l \in DOMAIN ret.val : k # l => ret.val[k][1] # ret.val[l][1]
    /\ \A c \in Range(Candidates) :
          (\A k \in DOMAIN ret.val : ret.val[k][1] # c)
              => \A k \in DOMAIN ret.val : TotalOf(query_embedding, args.query, c) <= ret.val[k][2]

\* C4: the list rank_search_results returns is non-increasing in
\* relevance_score; the list get_relevant_documents returns is non-increasing
\* in relevance score, has at most limit elements, and these are the limit
\* highest-scored candidates.
C4_SortedAndTopLimit ==
    /\ Ranked => NonIncreasing([k \in DOMAIN ret.val |-> ret.val[k].relevance_score])
    /\ Retrieved =>
          /\ Len(ret.val) <= args.limit
          /\ \E qe \in PossibleEmbeddings(EnhancedQuery(args.query, args.conversation_history)) :
                TopLimitAt(qe)

\* a retrieval that had more candidates than limit and whose best candidate
\* is not the first of the table
C4_Witness ==
    /\ Retrieved
    /\ Len(Candidates) > args.limit
    /\ Len(ret.val) = args.limit
    /\ ret.val[1][1] # Candidates[1]

\* C5: rank_search_results returns an empty list, without raising and without
\* loading or calling the embedding model, whenever the query is empty or the
\* document list is empty.
C5_EmptyInputsReturnEmpty ==
    [][(op' = "rank_search_results" /\ (args'.query = << >> \/ args'.documents = << >>))
          => (ret' = Ok(<< >>) /\ UNCHANGED ProviderVars)]_vars

\* a ranking of no documents for a query with words, the model never loaded
C5_Witness ==
    /\ op = "rank_search_results"
    /\ args.query = Text("refund policy")
    /\ args.documents = << >>
    /\ ret = Ok(<< >>)
    /\ embedding_model = "unset"
    /\ model_loads = 0

\* C10: generate_embedding on an empty or whitespace-only text returns a
\* vector of 384 zeros, never fails, and neither initializes nor calls the
\* model: a singleton that was unset stays unset.
C10_BlankTextZeroVector ==
    [][(op' = "generate_embedding" /\ args'.text # None /\ IsBlank(args'.text))
          => /\ ret'.ok
             /\ ret'.val.dim = 384
             /\ \A i \in DOMAIN ret'.val.head : ret'.val.head[i] = 0
             /\ UNCHANGED ProviderVars]_vars

\* a whitespace-only text embedded while the model is still unset
C10_Witness ==
    /\ op = "generate_embedding"
    /\ args.text = Text(" \t\n")
    /\ ret = Ok(ZeroVector)
    /\ embedding_model = "unset"
    /\ encode_calls = 0

(***************************************************************************)
(* Claims about the embedding model singleton (SpecThreads).               *)
(***************************************************************************)
\* C11: under any interleaving of concurrent callers of get_embedding_model
\* the embedding model is constructed at most once per process: two callers
\* that both find the singleton unset never both construct a model.
C11_ConstructedAtMostOnce == model_loads <= 1

(***************************************************************************)
(* Claims about failures of the embedding model (SpecRank).                *)
(***************************************************************************)
\* the call that has just returned needed an embedding of a text with words
NeedsEmbedding ==
    \/ op = "generate_embedding" /\ args.text # None /\ ~IsBlank(args.text)
    \/ op = "rank_search_results" /\ args.documents # << >> /\ ~IsBlank(args.query)
    \/ op = "get_relevant_documents"
    \/ op = "reindex_document"
    \/ op = "upload_document"

\* C12: when the embedding model fails to initialize, every
\* embedding-dependent call on non-empty text (generate_embedding,
\* reindex_document, rank_search_results and the upload that uses them)
\* surfaces the failure as an error: none completes normally with a zero,
\* empty or missing embedding in place of the real one.
C12_InitFailureSurfaces ==
    (NeedsEmbedding /\ embedding_model = "unset") => ~ret.ok

(***************************************************************************)
(* Claims about generate_document_summary (SpecSummary).                   *)
(***************************************************************************)
Summarized == op = "generate_document_summary"

\* the sentences of the content, as line 390 cuts them
SentencesOf(content) == SplitSentences(Strip(RemoveArtifacts(NormalizeWhitespace(content))))

NoSentenceAccepted(content) ==
    \A sentences \in {SentencesOf(content)} :
        /\ \A i \in DOMAIN sentences : ~is_quality_sentence(sentences[i])
        /\ RelaxedSentences(sentences) = << >>

\* C13: generate_document_summary never raises on degenerate input: for empty
\* or whitespace-only content it returns the fixed "document appears empty"
\* message, and for content in which neither the strict nor the relaxed
\* filter accepts any sentence it returns the fixed "unable to generate
\* summary" message.
C13_DegenerateInputMessages ==
    Summarized =>
        /\ ret.ok
        /\ IsBlank(args.content) => ret.val = Text(EmptyMessage)
        /\ (~IsBlank(args.content) /\ NoSentenceAccepted(args.content))
              => ret.val = Text(UnableMessage)

\* content that is not blank and of which no sentence passes either filter
C13_Witness ==
    /\ Summarized
    /\ args.content = Text("page 3")
    /\ ret = Ok(Text(UnableMessage))

\* the ways to pick k different sentences out of count, in some order
Picks(k, count) ==
    {f \in [1..k -> 1..count] : \A a, b \in 1..k : a # b => f[a] # f[b]}

Picked(quality, f) == Join([a \in DOMAIN f |-> quality[f[a]].text])

\* C14: for max_sentences n >= 1 the summary holds at most n sentences, each
\* a quality sentence of the document and none twice, when the document has
\* at least n quality sentences (embedding path, length cap and fallback
\* alike); with fewer than n it is all quality sentences joined in document
\* order; for non-empty content the summary is never empty.
C14_AtMostMaxSentences ==
    Summarized =>
        LET quality == QualitySentences(args.content)
            n == args.max_sentences
        IN  /\ (quality # << >> /\ Len(quality) >= n)
                  => \E k \in 1..n : \E f \in Picks(k, Len(quality)) :
                        ret.val = Picked(quality, f)
            /\ (quality # << >> /\ Len(quality) < n) => ret.val = Join(Texts(quality))
            /\ args.content # << >> => ret.val # << >>

\* a summary of four sentences that came out longer than the cap and was cut
\* to three
C14_Witness ==
    /\ Summarized
    /\ args.fails = "nothing"
    /\ args.max_sentences > CappedSentences
    /\ LET quality == QualitySentences(args.content)
       IN  /\ Len(quality) > args.max_sentences
           /\ Len(ret.val) <= SummaryCap
           /\ \E f \in Picks(CappedSentences, Len(quality)) : ret.val = Picked(quality, f)

\* C15: if a step of the embedding path fails (the model's initialization or
\* an encoding), generate_document_summary does not raise: it returns the
\* max_sentences quality sentences of highest importance score.
C15_FallbackByImportance ==
    LET quality == QualitySentences(args.content)
        n == args.max_sentences
    IN  (Summarized /\ args.fails # "nothing" /\ Len(quality) > n) =>
            /\ ret.ok
            /\ \E f \in Picks(n, Len(quality)) :
                  /\ ret.val = Picked(quality, f)
                  /\ \A a \in 1..n, j \in DOMAIN quality :
                        (\A b \in 1..n : f[b] # j)
                            => quality[j].importance <= quality[f[a]].importance

\* the model failed to load and the summary is not the document's first
\* sentences
C15_Witness ==
    /\ Summarized
    /\ args.fails = "load"
    /\ embedding_model = "unset"
    /\ LET quality == QualitySentences(args.content)
       IN  /\ Len(quality) > args.max_sentences
           /\ ret.val # Join(Texts(Slice(quality, 0, args.max_sentences)))

(***************************************************************************)
(* Claims about the chat retrieval's query (SpecRank)                      *)
(***************************************************************************)
\* the positions of the user turns among the last four turns of the history
RecentUserTurns(history) ==
    {i \in DOMAIN history : i > Len(history) - 4 /\ history[i].role = "user"}

\* the last two of them
LastTwoUserTurns(history) ==
    {i \in RecentUserTurns(history) :
        Cardinality({j \in RecentUserTurns(history) : j > i}) < 2}

RECURSIVE ContentsInOrder(_, _)
\* the contents of the turns at the positions, oldest first, each followed by a space
ContentsInOrder(history, positions) ==
    IF positions = {} THEN << >>
    ELSE LET first == CHOOSE i \in positions : \A j \in positions : i <= j
         IN  history[first].content \o <<" ">>
                 \o ContentsInOrder(history, positions \ {first})

\* C16: the text get_relevant_documents embeds is the contents of the last two
\* user turns among the last four turns of the history, oldest first and each
\* followed by a space, and then the query; assistant turns and older turns
\* are left out, and with no user turn among the last four it is the query
C16_EmbedsRecentUserTurnsThenQuery ==
    Retrieved =>
        args.embedded = ContentsInOrder(args.conversation_history,
                                        LastTwoUserTurns(args.conversation_history))
                            \o args.query

\* a history with three user turns and an assistant turn among its last four:
\* the two latest user turns are embedded ahead of the query
C16_Witness ==
    /\ Retrieved
    /\ Cardinality(RecentUserTurns(args.conversation_history)) > 2
    /\ \E i \in DOMAIN args.conversation_history :
           args.conversation_history[i].role = "assistant"
    /\ Len(args.embedded) > Len(args.query)

(***************************************************************************)
(* Claims about documents without an embedding (SpecRank)                  *)
(***************************************************************************)
HasNoEmbedding(d) == d.embedding = NoVector \/ d.embedding = EmptyList

\* the total of a document without an embedding: its semantic score is 0
\* whatever the query's embedding is
LexicalTotal(query, d) == TotalOf(ZeroVector, query, d)

\* C19: a document without an embedding is scored on both paths, with a
\* semantic score of 0 and the total of its other signals: the search path
\* returns it whenever that total reaches min_score, and the chat path returns
\* it whenever the limit leaves room for every accessible document
C19_ScoredWithoutEmbedding ==
    /\ (Ranked /\ args.query # << >>) =>
          \A i \in DOMAIN args.documents :
              (HasNoEmbedding(args.documents[i])
                  /\ LexicalTotal(args.query, args.documents[i]) >= args.min_score)
                  => \E k \in DOMAIN ret.val :
                        /\ ret.val[k].doc = args.documents[i]
                        /\ ret.val[k].score_breakdown.semantic = 0
                        /\ ret.val[k].relevance_score
                              = LexicalTotal(args.query, args.documents[i])
    /\ (Retrieved /\ Len(documents) <= args.limit) =>
          \A d \in Range(AccessibleDocs(documents, members, args.user_id)) :
              (HasNoEmbedding(d) /\ d.content # None /\ d.content # << >>)
                  => \E k \in DOMAIN ret.val :
                        /\ ret.val[k][1] = d
                        /\ ret.val[k][2] = LexicalTotal(args.query, d)

(***************************************************************************)
(* Claims about the chat replies (SpecChat), on the replies chat_service   *)
(* writes (the AI service unavailable or failing)                          *)
(***************************************************************************)
Sent == op = "send_message" /\ ret.ok
Fallback == Sent /\ args.ai # "reply"

\* C17: for a greeting such as "hi" the ranking is bypassed: no candidate
\* document is scored, none is cited, and the reply is the canned greeting,
\* whatever documents there are
C17_GreetingBypassesRanking ==
    (Fallback /\ is_greeting(args.content)) =>
        /\ args.retrieved = << >>
        /\ ret.val.citations = << >>
        /\ ret.val.content = GreetingReply

NonConversational(query) ==
    ~is_greeting(query) /\ ~is_about_locket(query) /\ ~is_general_conversation(query)

\* the total of the best candidate (the candidates are sorted best first)
BestScore == IF args.retrieved = << >> THEN 0 ELSE args.retrieved[1][2]

ScoreOfDocument(document_id) ==
    LET k == CHOOSE k \in DOMAIN args.retrieved : args.retrieved[k][1].id = document_id
    IN  args.retrieved[k][2]

\* C18: for a non-conversational query whose best candidate's total does not
\* exceed the usability threshold, the reply is the no-documents response, it
\* holds no excerpt of a document and no citation is created; and a document
\* is cited only when its total exceeds the threshold
C18_LowScoresGiveNoDocumentsReply ==
    (Fallback /\ NonConversational(args.content)) =>
        /\ BestScore <= UsableScore =>
              /\ ret.val.content \in {NoDocumentsForQuestion, NoDocumentsYet}
              /\ \A k \in DOMAIN args.retrieved :
                    args.retrieved[k][3] # << >>
                        => ~Contains(ret.val.content, Strip(args.retrieved[k][3]))
              /\ ret.val.citations = << >>
        /\ \A c \in DOMAIN ret.val.citations :
              ScoreOfDocument(ret.val.citations[c].document_id) > UsableScore

(***************************************************************************)
(* Claims about the summary cache (SpecCache)                              *)
(***************************************************************************)
\* the stored summary of document d exists, with its timestamp, and is less
\* than 30 days old
FreshlyStored(d) ==
    /\ summaries[d].summary # None
    /\ summaries[d].summary_generated_at # NoTime
    /\ now - summaries[d].summary_generated_at < 30

\* C20: a request the endpoint answers is served the stored summary, with
\* is_cached true, its generated_at and nothing stored anew, exactly when the
\* stored summary and timestamp exist and the timestamp is less than 30 days
\* old; otherwise the summary returned is stored with generated_at = now and
\* is_cached is false
C20_CachedExactlyWhenFresh ==
    [][(op' = "get_document_summary" /\ ret'.ok) =>
          LET d == args'.document_id
          IN  /\ ret'.val.is_cached = FreshlyStored(d)
              /\ FreshlyStored(d) =>
                    /\ ret'.val.summary = summaries[d].summary
                    /\ ret'.val.generated_at = summaries[d].summary_generated_at
                    /\ summaries' = summaries
              /\ ~FreshlyStored(d) =>
                    /\ ret'.val.generated_at = now
                    /\ summaries' = [summaries EXCEPT ![d] =
                                        [summary |-> ret'.val.summary,
                                         summary_generated_at |-> now]]]_vars

\* a request served from the cache days after the summary was generated
C20_Witness ==
    /\ op = "get_document_summary"
    /\ ret.ok
    /\ ret.val.is_cached
    /\ now > ret.val.generated_at
    /\ summaries[args.document_id].summary = ret.val.summary

(***************************************************************************)
(* Claims about the order of equal totals (SpecRank).                      *)
(***************************************************************************)
\* the offset of a result's document in the list the call was given
OffsetIn(docs, doc) == CHOOSE i \in DOMAIN docs : docs[i] = doc

\* C21: among the documents of equal total, rank_search_results returns them
\* in the order in which they appear in the input document list.
C21_TiesKeepInputOrder ==
    Ranked =>
        \A k, l \in DOMAIN ret.val :
            (k < l /\ ret.val[k].relevance_score = ret.val[l].relevance_score)
                => OffsetIn(args.documents, ret.val[k].doc)
                       < OffsetIn(args.documents, ret.val[l].doc)

\* a ranking of two documents of equal, positive total
C21_Witness ==
    /\ Ranked
    /\ Len(ret.val) >= 2
    /\ \E k, l \in DOMAIN ret.val :
          /\ k < l
          /\ ret.val[k].relevance_score = ret.val[l].relevance_score
          /\ ret.val[k].relevance_score > 0
          /\ ret.val[k].doc # ret.val[l].doc

(***************************************************************************)
(* Claims about blank arguments of the lexical scorers (SpecScore).        *)
(***************************************************************************)
\* the argument a scorer is given besides the query
OtherArgument ==
    IF Returned("filename_match_score") THEN args.filename ELSE args.text

\* C22: for a query that is empty or only whitespace, and for a content or a
\* filename that is empty or only whitespace, each of keyword_match_score,
\* fuzzy_match_score and filename_match_score returns 0.0, whatever the other
\* argument is.
C22_BlankArgumentScoresZero ==
    (/\ \/ Returned("keyword_match_score")
        \/ Returned("fuzzy_match_score")
        \/ Returned("filename_match_score")
     /\ IsBlank(args.query) \/ IsBlank(OtherArgument))
        => ret = 0

(***************************************************************************)
(* Claims about the selection loop and the length cap (SpecSummary).       *)
(***************************************************************************)
\* the score of the sentence at position i after the sentences at
\* picks[1..n] were selected one after the other
RECURSIVE CurrentScore(_, _, _, _, _)
CurrentScore(initial, embeddings, i, picks, n) ==
    IF n = 0 THEN initial[i + 1].score
    ELSE RoundDiv(CurrentScore(initial, embeddings, i, picks, n - 1)
                      * (10 * SimilarityGrain
                           - 3 * Similarity(embeddings[picks[n] + 1], embeddings[i + 1])),
                  10 * SimilarityGrain)

InitialScoresOf(quality) ==
    SentenceScores(quality, args.sentence_embeddings, args.doc_embedding)

SelectedPositions == [r \in DOMAIN args.selected |-> args.selected[r].i]

\* C23: on the embedding path the selection runs min(max_sentences, number
\* of quality sentences) rounds; each round selects the sentence not yet
\* selected whose current score is highest, the current score of a sentence
\* being its initial score multiplied, for every sentence selected before,
\* by (1 - 0.3 * cosine similarity to that sentence); no sentence is
\* selected twice.
C23_GreedySelectionWithPenalties ==
    (Summarized /\ args.fails = "nothing") =>
        \A quality \in {QualitySentences(args.content)} :
            Len(quality) > args.max_sentences =>
                \A initial \in {InitialScoresOf(quality)}, picks \in {SelectedPositions} :
                    /\ Len(picks) = Min(args.max_sentences, Len(quality))
                    /\ \A a, b \in DOMAIN picks : a # b => picks[a] # picks[b]
                    /\ \A r \in DOMAIN picks :
                          /\ picks[r] \in 0..(Len(quality) - 1)
                          /\ args.selected[r].score
                                = CurrentScore(initial, args.sentence_embeddings,
                                               picks[r], picks, r - 1)
                          /\ \A j \in 0..(Len(quality) - 1) :
                                (\A a \in 1..r : picks[a] # j)
                                    => CurrentScore(initial, args.sentence_embeddings,
                                                    j, picks, r - 1) <= args.selected[r].score

\* three rounds or more in which the penalties changed the order: a sentence
\* was selected before another of higher initial score
C23_Witness ==
    /\ Summarized
    /\ args.fails = "nothing"
    /\ Len(args.selected) >= 3
    /\ \E initial \in {InitialScoresOf(QualitySentences(args.content))} :
          \E a, b \in DOMAIN args.selected :
              /\ 1 < a
              /\ a < b
              /\ initial[args.selected[a].i + 1].score < initial[args.selected[b].i + 1].score

\* the texts of the selected sentences at the rounds in S, joined in the
\* order of the document
RECURSIVE JoinedInDocumentOrder(_)
JoinedInDocumentOrder(S) ==
    IF S = {} THEN << >>
    ELSE LET first == CHOOSE r \in S : \A q \in S : args.selected[r].i <= args.selected[q].i
             rest == JoinedInDocumentOrder(S \ {first})
         IN  IF rest = << >> THEN args.selected[first].text
             ELSE args.selected[first].text \o <<" ">> \o rest

\* the sets of three rounds whose sentences were selected with the highest
\* scores
TopThreeRounds ==
    {S \in SUBSET DOMAIN args.selected :
        /\ Cardinality(S) = CappedSentences
        /\ \A r \in S, q \in DOMAIN args.selected \ S :
              args.selected[q].score <= args.selected[r].score}

\* C24: when the selected sentences joined in document order exceed 600
\* characters and more than 3 were selected, the summary is the 3 selected
\* sentences of highest selection score, rejoined; otherwise it is the
\* selected sentences in document order joined by single spaces.
C24_CapKeepsTopThreeByScore ==
    (Summarized /\ args.fails = "nothing" /\ args.selected # << >>) =>
        \A joined \in {JoinedInDocumentOrder(DOMAIN args.selected)} :
            IF Len(joined) > SummaryCap /\ Len(args.selected) > CappedSentences
            THEN \E S \in TopThreeRounds : ret.val = JoinedInDocumentOrder(S)
            ELSE ret.val = joined

(***************************************************************************)
(* Claims about the classifiers of a message and the relevance of a        *)
(* citation (SpecReply).                                                   *)
(***************************************************************************)
\* the message, lowercased and stripped, is one of the phrases or begins
\* with one that further words follow
EqualsOrBeginsWith(query, phrases) ==
    \E phrase \in phrases :
        \/ Strip(Lower(query)) = phrase
        \/ /\ Len(Strip(Lower(query))) > Len(phrase) + 1
           /\ SubSeq(Strip(Lower(query)), 1, Len(phrase) + 1) = phrase \o <<" ">>

\* C25: a message is a greeting exactly when it equals a phrase of the fixed
\* list or starts with one followed by further words, or has at most 3
\* words: a message of more than 3 words that begins with a greeting phrase
\* is a greeting, and a greeting phrase inside a word does not make one.
C25_GreetingByPhraseOrLength ==
    /\ Returned("is_greeting") =>
          (ret <=> (\/ EqualsOrBeginsWith(args.query, greetings)
                    \/ Len(Split(Lower(args.query))) <= 3))
    /\ Returned("is_casual") =>
          (ret <=> (\/ EqualsOrBeginsWith(args.query, casual_phrases)
                    \/ Len(Split(Lower(args.query))) <= 3))

\* the filler responses of chat_service.generate_chat_response
FillerReplies ==
    {GeneralReplies[k][2] : k \in DOMAIN GeneralReplies} \cup {GeneralDefaultReply}

AboutTheAssistant(query) ==
    \E phrase \in locket_keywords : Occurs(phrase, Strip(Lower(query)))

Filler(query) ==
    /\ \E phrase \in general_patterns : Occurs(phrase, Strip(Lower(query)))
    /\ Len(Split(Lower(query))) <= 5

\* C26: every query that contains an about-the-assistant phrase receives the
\* about-the-assistant response of generate_chat_response, and every query
\* of at most 5 words that contains a filler phrase (and no
\* about-the-assistant phrase) receives a filler response; none of them
\* receives the greeting template or document content.
C26_AboutAndFillerReplies ==
    Returned("generate_chat_response") =>
        /\ AboutTheAssistant(args.query) => ret = AboutReply
        /\ (Filler(args.query) /\ ~AboutTheAssistant(args.query)) => ret \in FillerReplies

\* n is a nearest integer to score * 100, the score in ten-thousandths
NearestPercent(n, score) == Abs(n * (Unit4 \div 100) - score) * 2 <= Unit4 \div 100

\* C27: for every total in [0, 1] that is a multiple of 0.0001, the
\* relevance_score stored in a chat citation and the percentage written into
\* the prompt both are the nearest integer to total * 100 and lie in 0..100,
\* and the stored excerpt has at most 500 characters.
C27_RelevanceIsRoundedPercent ==
    /\ Returned("create_chat_citations") =>
          \A k \in DOMAIN ret :
              /\ NearestPercent(ret[k].relevance_score, args.relevant_docs[k][2])
              /\ ret[k].relevance_score \in 0..100
              /\ ret[k].excerpt # None => Len(ret[k].excerpt) <= CitationExcerptLength
    /\ (Returned("user_message") /\ ret # args.query) =>
          \E n \in 0..100 :
              /\ NearestPercent(n, args.relevant_docs[1][2])
              /\ Occurs(Text(" | Relevance: ") \o Str(n) \o Text("%]"), ret)

(***************************************************************************)
(* Claims about the access rule of the chat retrieval (SpecAccess).        *)
(***************************************************************************)
\* user u may see document d: it is private and u uploaded it, or public,
\* or of a group of which u is a member
MaySee(u, d) ==
    \/ d.visibility = "private" /\ d.uploaded_by_id = u
    \/ d.visibility = "public"
    \/ d.visibility = "group" /\ <<u, d.user_group_id>> \in members

\* C28: every document get_relevant_documents returns for user u is
\* accessible to u and is a row of the documents table, and no document is
\* returned twice, whatever uploads and membership changes came before.
C28_OnlyAccessibleDocumentsOnce ==
    Retrieved =>
        /\ \A k \in DOMAIN ret.val :
              /\ \E i \in DOMAIN documents : documents[i] = ret.val[k][1]
              /\ MaySee(args.user_id, ret.val[k][1])
        /\ \A k, l \in DOMAIN ret.val : k # l => ret.val[k][1].id # ret.val[l][1].id

\* a retrieval for a user who uploaded to a group and was removed from it
\* since: the table holds a group document of that user, a document of the
\* user is returned, the group document is not
C28_Witness ==
    /\ Retrieved
    /\ ret.val # << >>
    /\ \E i \in DOMAIN documents :
          /\ documents[i].visibility = "group"
          /\ documents[i].uploaded_by_id = args.user_id
          /\ <<args.user_id, documents[i].user_group_id>> \notin members
          /\ \A k \in DOMAIN ret.val : ret.val[k][1] # documents[i]

(***************************************************************************)
(* Claims about the AI providers behind send_message (SpecProvider).       *)
(***************************************************************************)
\* the text a provider returned to the call, None when none did: OpenRouter
\* is asked when it is configured and available, Ollama when OpenRouter is
\* not configured, not available, or raised
ProviderText ==
    IF ~args.imported THEN None
    ELSE IF args.provider = "openrouter"
              /\ args.openrouter.kind \in {"reply", "none", "request_fails"}
         THEN (IF args.openrouter.kind = "reply" THEN args.openrouter.text ELSE None)
    ELSE IF args.ollama.kind = "reply" THEN args.ollama.text
    ELSE None

\* C29: whatever the configured provider is and whether OpenRouter and
\* Ollama are unavailable, raise or return None, a send_message whose
\* retrieval succeeded is not aborted, and the assistant message it saves has
\* a content that is not None: the provider's text when a provider returned
\* one, otherwise the templated reply of chat_service.generate_chat_response.
C29_AssistantContentNeverNone ==
    (op = "send_message" /\ args.retrieved # None) =>
        /\ ret.ok
        /\ Len(chat.messages) = 2
        /\ chat.messages[2].role = "assistant"
        /\ chat.messages[2].content # None
        /\ ret.val.content = chat.messages[2].content
        /\ IF ProviderText # None THEN chat.messages[2].content = ProviderText
           ELSE \E choice \in DOMAIN intro_phrases :
                   chat.messages[2].content
                       = generate_chat_response(args.content, args.retrieved, choice)

\* OpenRouter is configured and raises, Ollama is not available, and the
\* question about a document is answered from the template
C29_Witness ==
    /\ op = "send_message"
    /\ args.imported
    /\ args.provider = "openrouter"
    /\ args.openrouter.kind = "raises"
    /\ args.ollama.kind = "unavailable"
    /\ args.retrieved # None
    /\ args.retrieved # << >>
    /\ ~is_greeting(args.content)
    /\ ret.ok
    /\ chat.messages[2].content
          = generate_contextual_response(args.content, args.retrieved, 1)

(***************************************************************************)
(* Claims about what the summary endpoint stores (SpecCache).              *)
(***************************************************************************)
\* C30: the placeholder the endpoint returns when summary generation failed
\* is never stored as a document's summary, and no request returns it with
\* is_cached = true.
C30_PlaceholderNeverCached ==
    /\ \A d \in DOMAIN summaries : summaries[d].summary # FallbackSummaryText
    /\ (op = "get_document_summary" /\ ret.ok /\ ret.val.is_cached)
          => ret.val.summary # FallbackSummaryText

=============================================================================
